---- MODULE Spec2Model ----
(***************************************************************************)
(* Keybearer v2: the threshold (M-of-N) file-encryption engine of          *)
(* src/src/kb.js, its primitives (src/src/kb-noble.js, kb-legacy.js) and   *)
(* the page's decryption handler (kbpage-v2.js); and the encryption        *)
(* worker (kb-worker.js) with the page handlers that talk to it.           *)
(*                                                                         *)
(* Strings are sequences of one-character strings.  The cryptographic      *)
(* primitives are symbolic: a random draw is a fresh value, a derived key  *)
(* is a term over (combination, salt, iterations), and an AEAD box opens   *)
(* only under the key and nonce that sealed it and only if unaltered.      *)
(***************************************************************************)
EXTENDS Integers, Sequences, FiniteSets, TLC

VARIABLES
  kb,        \* the keybearer object: its private state and pbkdf2_iterations
  sjcl,      \* whether the global sjcl is defined in this context
  rnd,       \* random source: draws made so far, by purpose
  out,       \* the JSON text the last encryptWithPasswords returned
  enc,       \* what that encryption was given (passwords, threshold, plaintext)
  call,      \* the last operation: its name and how it ended
  strIn,     \* string specification: the list of raw passwords given
  strOut,    \* string specification: the last pure call [f, arg, val]
  inbox,     \* messages posted by the page, not yet taken by the worker
  outbox,    \* messages posted by the worker, not yet taken by the page
  wkb,       \* the keybearer object of the worker's context
  todo,      \* the postMessage calls the running worker handler has yet to make
  page,      \* the page: its engine's plaintext flag, readers, click handlers
  posted,    \* every message the page has posted, in order
  sent       \* every message the worker has posted, in order

engVars == <<kb, sjcl, rnd, out, enc, call>>
strVars == <<strIn, strOut>>
wkVars == <<inbox, outbox, wkb, todo, page, posted, sent>>
vars == <<kb, sjcl, rnd, out, enc, call, strIn, strOut,
          inbox, outbox, wkb, todo, page, posted, sent>>

(***************************************************************************)
(* Bounds                                                                  *)
(***************************************************************************)
MaxStrLen == 4      \* longest single string given to normalizeString
MaxPwLen == 2       \* longest raw password in a list of the string specification
MaxList == 2        \* longest password list of the string specification
MaxSalt == 1        \* most makeSalt calls in one run
MaxEnc == 1         \* most encryptWithPasswords calls in one run
MaxFile == 2        \* most plaintext files chosen on the page in one run
MaxPost == 4        \* most messages the page posts to the worker in one run
WordBits == 3       \* width w of a raw random word (32 in the code)
MaxDraws == 2       \* most raw words one randomIntegers call draws

(***************************************************************************)
(* Strings                                                                 *)
(***************************************************************************)
Alphabet == {"a", "b", " ", "\t"}

\* /\s/ restricted to the alphabet
IsWs(c) == c \in {" ", "\t"}

\* UTF-16 code unit of a character (the order Array.prototype.sort uses)
CharCode(c) ==
  CASE c = "\t" -> 9
    [] c = " " -> 32
    [] c = "a" -> 97
    [] c = "b" -> 98

RECURSIVE DropWs(_)
DropWs(s) ==
  IF s = <<>> THEN <<>>
  ELSE IF IsWs(Head(s)) THEN DropWs(Tail(s)) ELSE s

\* string.replace(/\s+/g, ' ')
RECURSIVE CollapseWs(_)
CollapseWs(s) ==
  IF s = <<>> THEN <<>>
  ELSE IF IsWs(Head(s)) THEN <<" ">> \o CollapseWs(DropWs(Tail(s)))
  ELSE <<Head(s)>> \o CollapseWs(Tail(s))

\* string.replace(/(^\s|\s$)/g, ''): one whitespace character at each end
StripEnds(s) ==
  LET lead == Len(s) >= 1 /\ IsWs(s[1])
      t == IF lead THEN Tail(s) ELSE s
      trail == Len(t) >= 1 /\ IsWs(t[Len(t)])
  IN IF trail THEN SubSeq(t, 1, Len(t) - 1) ELSE t

normalizeString(string) == StripEnds(CollapseWs(string))

\* x < y on strings, by code units
RECURSIVE StrLess(_, _)
StrLess(x, y) ==
  IF y = <<>> THEN FALSE
  ELSE IF x = <<>> THEN TRUE
  ELSE IF CharCode(Head(x)) # CharCode(Head(y))
       THEN CharCode(Head(x)) < CharCode(Head(y))
  ELSE StrLess(Tail(x), Tail(y))

RECURSIVE InsertSorted(_, _)
InsertSorted(x, s) ==
  IF s = <<>> THEN <<x>>
  ELSE IF StrLess(x, Head(s)) THEN <<x>> \o s
  ELSE <<Head(s)>> \o InsertSorted(x, Tail(s))

\* passwords.sort()
RECURSIVE SortStrings(_)
SortStrings(s) ==
  IF s = <<>> THEN <<>> ELSE InsertSorted(s[Len(s)], SortStrings(SubSeq(s, 1, Len(s) - 1)))

\* the prefix null of the outermost combine call
NullPrefix == <<"null">>

\* [prefix, password].join(' '): null joins as the empty string
JoinPrefix(prefix, password) ==
  IF prefix = NullPrefix THEN <<" ">> \o password
  ELSE prefix \o <<" ">> \o password

\* a plausible slip: replace(/ /g, ''), every space is removed
ReplaceFirstSpace_All(s) == SelectSeq(s, LAMBDA c : c # " ")

\* prefix.replace(/ /, ''): the first space only
RECURSIVE ReplaceFirstSpace(_)
ReplaceFirstSpace(s) ==
  IF s = <<>> THEN <<>>
  ELSE IF Head(s) = " " THEN Tail(s)
  ELSE <<Head(s)>> \o ReplaceFirstSpace(Tail(s))

\* combine(passwords, output, prefix, levels_left, start): what it pushes
RECURSIVE combine(_, _, _, _)
RECURSIVE combineLoop(_, _, _, _)
combine(passwords, prefix, levels_left, start) ==
  IF levels_left <= 0 THEN <<ReplaceFirstSpace(prefix)>>
  ELSE combineLoop(passwords, prefix, levels_left, start)

combineLoop(passwords, prefix, levels_left, i) ==
  IF i > Len(passwords) THEN <<>>
  ELSE combine(passwords, JoinPrefix(prefix, passwords[i]), levels_left - 1, i + 1)
       \o combineLoop(passwords, prefix, levels_left, i + 1)

NormalizeAll(passwords) == [i \in 1..Len(passwords) |-> normalizeString(passwords[i])]

\* a plausible slip: the list is never sorted
makeCombinedPasswords_NoSort(passwords, nToUnlock) ==
  IF nToUnlock <= 0 THEN [threw |-> TRUE, val |-> <<>>]
  ELSE [threw |-> FALSE, val |-> combine(NormalizeAll(passwords), NullPrefix, nToUnlock, 1)]

\* a plausible slip: sort first, normalize afterwards
makeCombinedPasswords_SortRaw(passwords, nToUnlock) ==
  IF nToUnlock <= 0 THEN [threw |-> TRUE, val |-> <<>>]
  ELSE [threw |-> FALSE,
        val |-> combine(NormalizeAll(SortStrings(passwords)), NullPrefix, nToUnlock, 1)]

\* makeCombinedPasswords: the list it returns.  With
\* nToUnlock <= 0 the outermost combine calls null.replace, a TypeError.
makeCombinedPasswords(passwords, nToUnlock) ==
  IF nToUnlock <= 0 THEN [threw |-> TRUE, val |-> <<>>]
  ELSE [threw |-> FALSE,
        val |-> combine(SortStrings(NormalizeAll(passwords)), NullPrefix, nToUnlock, 1)]

(***************************************************************************)
(* Values.  Every value is a record with a tag t.                          *)
(***************************************************************************)
Null == [t |-> "null"]

\* noble.getRandomBytes: the n-th draw made for a purpose; draws never repeat
Fresh(use, n, i) == [t |-> "rnd", use |-> use, n |-> n, i |-> i]

\* the bytes of a file given to setPlaintext
FileBytes(id) == [t |-> "file", id |-> id]

\* an SJCL bitArray holding the bytes x
Bits(x) == [t |-> "bits", of |-> x]

\* Array.isArray(x): of the values here only a bitArray is an Array
IsArray(x) == x.t = "bits"

\* a Uint8Array
IsBytes(x) == x.t \in {"rnd", "file", "dk", "box", "garbled"}

\* PBKDF2-HMAC-SHA256 of (password, salt, iterations), as bytes
Pbkdf2(password, salt, iterations) ==
  [t |-> "dk", pw |-> password, salt |-> salt, iter |-> iterations]

\* an AEAD ciphertext with its tag: alg seals pt under k with nonce iv;
\* ok is FALSE once a byte of it has been altered
Box(alg, k, iv, pt) == [t |-> "box", alg |-> alg, k |-> k, iv |-> iv, pt |-> pt, ok |-> TRUE]

\* what a cipher without tag verification would hand back for x
Garbled(x) == [t |-> "garbled", of |-> x]

\* one byte of a ciphertext altered
Alter(x) == IF x.t = "box" THEN [x EXCEPT !.ok = FALSE] ELSE Garbled(x)

\* noble.encodeBase64: Array.from(null) throws; the 32-bit words of a bitArray
\* become characters above 255, which btoa rejects
encodeBase64(x) ==
  IF x.t = "null" \/ IsArray(x) THEN [threw |-> TRUE, val |-> Null]
  ELSE [threw |-> FALSE, val |-> [t |-> "b64", of |-> x]]

\* atob
decodeBase64(x) ==
  IF x.t = "b64" THEN [threw |-> FALSE, val |-> x.of] ELSE [threw |-> TRUE, val |-> Null]

\* sjcl.codec.base64.toBits
toBits(x) ==
  IF x.t = "b64" THEN [threw |-> FALSE, val |-> Bits(x.of)] ELSE [threw |-> TRUE, val |-> Null]

\* noble.deriveKeyFromPassword: pbkdf2 rejects a salt that is not bytes
deriveKeyFromPassword(password, salt, iterations) ==
  IF IsBytes(salt) THEN [threw |-> FALSE, val |-> Pbkdf2(password, salt, iterations)]
  ELSE [threw |-> TRUE, val |-> Null]

\* legacy.deriveKeyLegacy: sjcl.misc.pbkdf2 over a bitArray salt, a bitArray key
deriveKeyLegacy(password, salt, iterations) ==
  IF IsArray(salt) THEN [threw |-> FALSE, val |-> Bits(Pbkdf2(password, salt.of, iterations))]
  ELSE [threw |-> TRUE, val |-> Null]

\* noble.encryptChaCha20Poly1305: key, nonce and plaintext must be bytes
encryptChaCha20Poly1305(key, plaintext, nonce) ==
  IF IsBytes(key) /\ IsBytes(plaintext) /\ IsBytes(nonce)
  THEN [threw |-> FALSE, ciphertext |-> Box("chacha20poly1305", key, nonce, plaintext),
        nonce |-> nonce]
  ELSE [threw |-> TRUE, ciphertext |-> Null, nonce |-> nonce]

\* a plausible slip: the tag is not verified, altered input decrypts to garbage
decryptChaCha20Poly1305_NoTag(key, ciphertext, nonce) ==
  IF IsBytes(key) /\ ciphertext.t = "box"
  THEN IF ciphertext.ok /\ ciphertext.k = key /\ ciphertext.iv = nonce
            /\ ciphertext.alg = "chacha20poly1305"
       THEN [threw |-> FALSE, val |-> ciphertext.pt]
       ELSE [threw |-> FALSE, val |-> Garbled(ciphertext.pt)]
  ELSE [threw |-> TRUE, val |-> Null]

\* noble.decryptChaCha20Poly1305: throws unless the tag verifies
decryptChaCha20Poly1305(key, ciphertext, nonce) ==
  IF /\ IsBytes(key)
     /\ ciphertext.t = "box"
     /\ ciphertext.alg = "chacha20poly1305"
     /\ ciphertext.ok
     /\ ciphertext.k = key
     /\ ciphertext.iv = nonce
  THEN [threw |-> FALSE, val |-> ciphertext.pt]
  ELSE [threw |-> TRUE, val |-> Null]

\* sjcl.mode[mode].decrypt(new sjcl.cipher[cipher](key), ct, iv, adata, ts):
\* a bitArray, or an exception (unknown cipher or mode, bad key, tag mismatch)
SjclDecrypt(cipherobj, key, ct, iv) ==
  IF /\ cipherobj.cipher = "aes"
     /\ cipherobj.mode \in {"ccm", "ocb2"}
     /\ IsArray(key) /\ IsArray(ct) /\ IsArray(iv)
     /\ ct.of.t = "box"
     /\ ct.of.alg = cipherobj.mode
     /\ ct.of.ok
     /\ ct.of.k = key.of
     /\ ct.of.iv = iv.of
  THEN [threw |-> FALSE, val |-> Bits(ct.of.pt)]
  ELSE [threw |-> TRUE, val |-> Null]

\* legacy.bitArrayToBytes
bitArrayToBytes(bitArray) == bitArray.of

\* legacy.decryptLegacy
decryptLegacy(cipherobj, key) ==
  LET r == SjclDecrypt(cipherobj, key, cipherobj.ct, cipherobj.iv)
  IN IF r.threw THEN r ELSE [threw |-> FALSE, val |-> bitArrayToBytes(r.val)]

\* legacy.decryptKeyLegacy: null (here Null) when the open throws
decryptKeyLegacy(cipherobj, key, keyiv) ==
  LET r == SjclDecrypt(cipherobj, key, keyiv.key, keyiv.iv)
  IN IF r.threw THEN Null ELSE r.val

\* the value of the v property of a parsed file that has none; the versions
\* a file does state are the integers from 0 up
Absent == 0 - 1

\* legacy.isLegacyFormat: !cipherobj.v holds for a missing v and for v = 0
isLegacyFormat(cipherobj) ==
  \/ cipherobj.v = Absent
  \/ cipherobj.v = 0
  \/ cipherobj.v = 1
  \/ cipherobj.mode = "ccm"
  \/ cipherobj.mode = "ocb2"

(***************************************************************************)
(* The engine (keybearer).  Each operation maps the object to the object   *)
(* it leaves, with threw = TRUE when it ends in an exception.              *)
(***************************************************************************)
pbkdf2_iterations == 50000
aes_key_strength == 32

NoInt == 0 - 1     \* a numeric field still null

InitKb ==
  [salt |-> Null, plaintext |-> Null, cipherobj |-> Null, keys |-> <<>>,
   master |-> Null, filename |-> "", filetype |-> "",
   nPasswords |-> NoInt, nToUnlock |-> NoInt, iterations |-> pbkdf2_iterations]

\* what an operation did, for the properties that speak of it
NoLog == [kdf |-> <<>>, opens |-> <<>>, popen |-> 0, seal |-> <<>>]

Res(k, threw, ret, log) == [kb |-> k, threw |-> threw, ret |-> ret, log |-> log]

makeSalt(k, n) == [k EXCEPT !.salt = Fresh("salt", n, 0)]

makeAESKey(k, n) == [k EXCEPT !.master = Fresh("master", n, 0)]

setPlaintext(k, data, fn, ft) ==
  [k EXCEPT !.plaintext = data,
            !.filename = IF fn # "" THEN fn ELSE @,
            !.filetype = IF ft # "" THEN ft ELSE @]

makeKeyFromPassword(k, hasSjcl, password) ==
  IF hasSjcl /\ IsArray(k.salt)
  THEN deriveKeyLegacy(password, k.salt, k.iterations) @@ [eng |-> "legacy"]
  ELSE deriveKeyFromPassword(password, k.salt, k.iterations) @@ [eng |-> "noble"]

\* a plausible slip: _keys is not emptied, keys pile up across calls
makeKeyCombinations_NoReset(k, hasSjcl, passwords, nToUnlock) ==
  LET k1 == [k EXCEPT !.nPasswords = Len(passwords), !.nToUnlock = nToUnlock]
      c == makeCombinedPasswords(passwords, nToUnlock)
      d == [i \in 1..Len(c.val) |-> makeKeyFromPassword(k1, hasSjcl, c.val[i])]
  IN IF c.threw THEN Res(k1, TRUE, <<>>, NoLog)
     ELSE IF \E i \in 1..Len(d) : d[i].threw
          THEN Res(k1, TRUE, <<>>, [NoLog EXCEPT !.kdf = <<d[1].eng>>])
     ELSE Res([k1 EXCEPT !.keys = @ \o [i \in 1..Len(d) |-> d[i].val]], FALSE, <<>>,
              [NoLog EXCEPT !.kdf = [i \in 1..Len(d) |-> d[i].eng]])

\* makeKeyCombinations with makeCombinedPasswords (which sets _nPasswords and
\* _nToUnlock before it enumerates).  Every derivation reads the same salt, so
\* if one throws the first does, and _keys stays empty.
makeKeyCombinations(k, hasSjcl, passwords, nToUnlock) ==
  LET k1 == [k EXCEPT !.keys = <<>>, !.nPasswords = Len(passwords), !.nToUnlock = nToUnlock]
      c == makeCombinedPasswords(passwords, nToUnlock)
      d == [i \in 1..Len(c.val) |-> makeKeyFromPassword(k1, hasSjcl, c.val[i])]
  IN IF c.threw THEN Res(k1, TRUE, <<>>, NoLog)
     ELSE IF \E i \in 1..Len(d) : d[i].threw
          THEN Res(k1, TRUE, <<>>, [NoLog EXCEPT !.kdf = <<d[1].eng>>])
     ELSE Res([k1 EXCEPT !.keys = [i \in 1..Len(d) |-> d[i].val]], FALSE, <<>>,
              [NoLog EXCEPT !.kdf = [i \in 1..Len(d) |-> d[i].eng]])

IsNull(x) == x.t = "null"

\* a plausible slip: no inner loop, derived key i is tried on wrapped key i only
PairSeq_Diagonal(nk, nc) ==
  [p \in 1..(IF nk < nc THEN nk ELSE nc) |-> [i |-> p, j |-> p]]

\* the pairs (i, j) in the order of the two nested loops
PairSeq(nk, nc) ==
  [p \in 1..(nk * nc) |-> [i |-> ((p - 1) \div nc) + 1, j |-> ((p - 1) % nc) + 1]]

\* a plausible slip: the master key is cleared before the loop, as
\* makeKeyCombinations clears the derived keys
TrialLoop_Reset(k, pairs, opened) ==
  LET hits == {p \in 1..Len(pairs) : ~IsNull(opened[p])}
      first == IF hits = {} THEN Len(pairs) ELSE CHOOSE p \in hits : \A q \in hits : p <= q
      tried == [p \in 1..first |-> [i |-> pairs[p].i, j |-> pairs[p].j,
                                     ok |-> ~IsNull(opened[p])]]
  IN IF hits = {}
     THEN Res([k EXCEPT !.master = Null], FALSE, FALSE, [NoLog EXCEPT !.opens = tried])
     ELSE Res([k EXCEPT !.master = opened[first]], FALSE, TRUE,
              [NoLog EXCEPT !.opens = tried])

\* a plausible slip: no break, every pair is tried and the last success wins
TrialLoop_NoBreak(k, pairs, opened) ==
  LET hits == {p \in 1..Len(pairs) : ~IsNull(opened[p])}
      last == IF hits = {} THEN Len(pairs) ELSE CHOOSE p \in hits : \A q \in hits : q <= p
      tried == [p \in 1..Len(pairs) |-> [i |-> pairs[p].i, j |-> pairs[p].j,
                                          ok |-> ~IsNull(opened[p])]]
  IN IF hits = {} THEN Res(k, FALSE, FALSE, [NoLog EXCEPT !.opens = tried])
     ELSE Res([k EXCEPT !.master = opened[last]], FALSE, TRUE,
              [NoLog EXCEPT !.opens = tried])

\* the trial loop over a sequence of open results: stop at the first success
TrialLoop(k, pairs, opened) ==
  LET hits == {p \in 1..Len(pairs) : ~IsNull(opened[p])}
      first == IF hits = {} THEN Len(pairs) ELSE CHOOSE p \in hits : \A q \in hits : p <= q
      tried == [p \in 1..first |-> [i |-> pairs[p].i, j |-> pairs[p].j,
                                     ok |-> ~IsNull(opened[p])]]
  IN IF hits = {} THEN Res(k, FALSE, FALSE, [NoLog EXCEPT !.opens = tried])
     ELSE Res([k EXCEPT !.master = opened[first]], FALSE, TRUE,
              [NoLog EXCEPT !.opens = tried])

\* decryptKeysLegacy
decryptKeysLegacy(k) ==
  IF Len(k.keys) = 0 THEN Res(k, FALSE, FALSE, NoLog)
  ELSE IF ~k.cipherobj.hasKeys THEN Res(k, TRUE, FALSE, NoLog)
  ELSE LET pairs == PairSeq(Len(k.keys), Len(k.cipherobj.keys))
           opened == [p \in 1..Len(pairs) |->
                        decryptKeyLegacy(k.cipherobj, k.keys[pairs[p].i],
                                         k.cipherobj.keys[pairs[p].j])]
       IN TrialLoop(k, pairs, opened)

\* decryptKeys.  With no envelope loaded, isLegacyFormat(null) or null.keys throws.
decryptKeys(k, hasSjcl) ==
  IF IsNull(k.cipherobj)
  THEN IF ~hasSjcl /\ Len(k.keys) = 0 THEN Res(k, FALSE, FALSE, NoLog)
       ELSE Res(k, TRUE, FALSE, NoLog)
  ELSE IF hasSjcl /\ isLegacyFormat(k.cipherobj) THEN decryptKeysLegacy(k)
  ELSE IF Len(k.keys) = 0 THEN Res(k, FALSE, FALSE, NoLog)
  ELSE IF ~k.cipherobj.hasKeys THEN Res(k, TRUE, FALSE, NoLog)
  ELSE LET pairs == PairSeq(Len(k.keys), Len(k.cipherobj.keys))
           opened == [p \in 1..Len(pairs) |->
                        LET r == decryptChaCha20Poly1305(k.keys[pairs[p].i],
                                   k.cipherobj.keys[pairs[p].j].key,
                                   k.cipherobj.keys[pairs[p].j].iv)
                        IN IF r.threw THEN Null ELSE r.val]
       IN TrialLoop(k, pairs, opened)

\* a plausible slip: a failed open is caught, as decryptKeyLegacy does, and
\* its null result stored
decryptCiphertext_Swallow(k, hasSjcl) ==
  IF IsNull(k.cipherobj) THEN Res(k, TRUE, FALSE, NoLog)
  ELSE LET r == IF hasSjcl /\ isLegacyFormat(k.cipherobj)
                THEN decryptLegacy(k.cipherobj, k.master)
                ELSE decryptChaCha20Poly1305(k.master, k.cipherobj.ct, k.cipherobj.iv)
       IN IF r.threw
          THEN Res([k EXCEPT !.plaintext = Null], FALSE, FALSE, [NoLog EXCEPT !.popen = 1])
          ELSE Res([k EXCEPT !.plaintext = r.val], FALSE, FALSE, [NoLog EXCEPT !.popen = 1])

\* decryptCiphertext: _plaintext is assigned only if the open returns
decryptCiphertext(k, hasSjcl) ==
  IF IsNull(k.cipherobj) THEN Res(k, TRUE, FALSE, NoLog)
  ELSE LET r == IF hasSjcl /\ isLegacyFormat(k.cipherobj)
                THEN decryptLegacy(k.cipherobj, k.master)
                ELSE decryptChaCha20Poly1305(k.master, k.cipherobj.ct, k.cipherobj.iv)
       IN IF r.threw THEN Res(k, TRUE, FALSE, [NoLog EXCEPT !.popen = 1])
          ELSE Res([k EXCEPT !.plaintext = r.val], FALSE, FALSE, [NoLog EXCEPT !.popen = 1])

\* makeMetadataObject; ct is filled in by encryptPlaintext, keys by
\* augmentWithEncryptedKeys (hasKeys = FALSE: the keys property is undefined)
makeMetadataObject(k, n) ==
  [t |-> "obj", adata |-> "", iter |-> k.iterations, mode |-> "chacha20poly1305",
   cipher |-> "chacha20", ts |-> 128, ks |-> aes_key_strength * 8,
   salt |-> k.salt, iv |-> Fresh("iv", n, 0), v |-> 2, ct |-> Null,
   fn |-> k.filename, ft |-> k.filetype,
   nkeys |-> k.nPasswords, nunlock |-> k.nToUnlock,
   keys |-> <<>>, hasKeys |-> FALSE]

\* randto(end, 1)[0]: any integer of [0, end)
randto(end) == 0..(end - 1)

Swap(arr, a, b) == [arr EXCEPT ![a] = arr[b], ![b] = arr[a]]

\* a plausible slip: j is drawn below i, so no element can stay in place
RECURSIVE ShuffleFrom_Sattolo(_, _)
ShuffleFrom_Sattolo(S, i) ==
  IF i < 1 THEN S
  ELSE ShuffleFrom_Sattolo({Swap(arr, i + 1, j + 1) : arr \in S, j \in randto(i)}, i - 1)

\* the while (--i) loop of shuffle, i counting down to 1 (0-based), over
\* every draw of j = randto(i + 1)
RECURSIVE ShuffleFrom(_, _)
ShuffleFrom(S, i) ==
  IF i < 1 THEN S
  ELSE ShuffleFrom({Swap(arr, i + 1, j + 1) : arr \in S, j \in randto(i + 1)}, i - 1)

\* shuffle(arr): the arrays it can leave
shuffle(arr) == ShuffleFrom({arr}, Len(arr) - 1)

\* a plausible slip: the master key itself is stored instead of its ciphertext
augmentWithEncryptedKeys_Clear(k, n) ==
  LET sealed == [i \in 1..Len(k.keys) |->
                   encryptChaCha20Poly1305(k.keys[i], k.master, Fresh("keyiv", n, i))]
  IN IF \E i \in 1..Len(sealed) : sealed[i].threw THEN [threw |-> TRUE, keys |-> <<>>]
     ELSE [threw |-> FALSE,
           keys |-> [i \in 1..Len(sealed) |-> [iv |-> sealed[i].nonce, key |-> k.master]]]

\* augmentWithEncryptedKeys before the shuffle: encKeys, in combination order
augmentWithEncryptedKeys(k, n) ==
  LET sealed == [i \in 1..Len(k.keys) |->
                   encryptChaCha20Poly1305(k.keys[i], k.master, Fresh("keyiv", n, i))]
  IN IF \E i \in 1..Len(sealed) : sealed[i].threw THEN [threw |-> TRUE, keys |-> <<>>]
     ELSE [threw |-> FALSE,
           keys |-> [i \in 1..Len(sealed) |->
                       [iv |-> sealed[i].nonce, key |-> sealed[i].ciphertext]]]

\* JSON.stringify of an envelope object
Stringify(obj) == [wf |-> TRUE, obj |-> obj]

\* no JSON text
NoJson == [wf |-> FALSE, obj |-> Null]

\* getCipherJSON
getCipherJSON(k) ==
  IF IsNull(k.cipherobj) \/ ~k.cipherobj.hasKeys THEN [threw |-> TRUE, val |-> NoJson]
  ELSE LET c == k.cipherobj
           salt == encodeBase64(c.salt)
           iv == encodeBase64(c.iv)
           ct == encodeBase64(c.ct)
           kiv == [i \in 1..Len(c.keys) |-> encodeBase64(c.keys[i].iv)]
           kkey == [i \in 1..Len(c.keys) |-> encodeBase64(c.keys[i].key)]
       IN IF \/ salt.threw \/ iv.threw \/ ct.threw
             \/ \E i \in 1..Len(c.keys) : kiv[i].threw \/ kkey[i].threw
          THEN [threw |-> TRUE, val |-> NoJson]
          ELSE [threw |-> FALSE,
                val |-> Stringify(
                  [v |-> c.v, mode |-> c.mode, cipher |-> c.cipher, ts |-> c.ts,
                   ks |-> c.ks, iter |-> c.iter, adata |-> c.adata, fn |-> c.fn,
                   ft |-> c.ft, nkeys |-> c.nkeys, nunlock |-> c.nunlock,
                   salt |-> salt.val, iv |-> iv.val, ct |-> ct.val,
                   keys |-> [i \in 1..Len(c.keys) |->
                               [iv |-> kiv[i].val, key |-> kkey[i].val]]])]

\* encryptPlaintext: the outcomes, one per result of the shuffle.  ret is the
\* JSON text; wrapped is encKeys in combination order.
encryptPlaintext(k, n, log) ==
  LET p == makeMetadataObject(k, n)
      r == encryptChaCha20Poly1305(k.master, k.plaintext, p.iv)
      k1 == [k EXCEPT !.cipherobj = [p EXCEPT !.ct = r.ciphertext, !.iv = r.nonce]]
      a == augmentWithEncryptedKeys(k1, n)
      log1 == [log EXCEPT !.seal = IF r.threw THEN <<>> ELSE <<"noble">>]
  IN IF r.threw THEN {Res(k, TRUE, NoJson, log1) @@ [wrapped |-> <<>>]}
     ELSE IF a.threw THEN {Res(k1, TRUE, NoJson, log1) @@ [wrapped |-> <<>>]}
     ELSE {LET k2 == [k1 EXCEPT !.cipherobj.keys = perm, !.cipherobj.hasKeys = TRUE]
               j == getCipherJSON(k2)
           IN Res(k2, j.threw, j.val, log1) @@ [wrapped |-> a.keys]
           : perm \in IF a.keys = <<>> THEN {<<>>} ELSE shuffle(a.keys)}

\* encryptWithPasswords
encryptWithPasswords(k, hasSjcl, passwords, nUnlock, n) ==
  LET mk == makeKeyCombinations(k, hasSjcl, passwords, nUnlock)
  IN IF mk.threw THEN {mk @@ [wrapped |-> <<>>]}
     ELSE encryptPlaintext(makeAESKey(mk.kb, n), n, mk.log)

\* the fields of the parsed object decoded: by sjcl.codec.base64.toBits for a
\* legacy file, by noble.decodeBase64 otherwise
DecodeFields(obj, isLegacy) ==
  LET codec(x) == IF isLegacy THEN toBits(x) ELSE decodeBase64(x)
      salt == codec(obj.salt)
      iv == codec(obj.iv)
      ct == codec(obj.ct)
      kiv == [i \in 1..Len(obj.keys) |-> codec(obj.keys[i].iv)]
      kkey == [i \in 1..Len(obj.keys) |-> codec(obj.keys[i].key)]
  IN [threw |-> \/ salt.threw \/ iv.threw \/ ct.threw
                \/ \E i \in 1..Len(obj.keys) : kiv[i].threw \/ kkey[i].threw,
      salt |-> salt.val, iv |-> iv.val, ct |-> ct.val,
      keys |-> [i \in 1..Len(obj.keys) |-> [iv |-> kiv[i].val, key |-> kkey[i].val]]]

\* a plausible slip: _salt is assigned as soon as the salt is decoded
setCipherJSON_SaltFirst(k, hasSjcl, data) ==
  IF ~data.wf THEN Res(k, TRUE, FALSE, NoLog)
  ELSE LET obj == data.obj
           isLegacy == isLegacyFormat(obj)
       IN IF isLegacy /\ ~hasSjcl THEN Res(k, TRUE, FALSE, NoLog)
          ELSE LET d == DecodeFields(obj, isLegacy)
                   o == [t |-> "obj", adata |-> obj.adata, iter |-> obj.iter,
                         mode |-> obj.mode, cipher |-> obj.cipher, ts |-> obj.ts,
                         ks |-> obj.ks, salt |-> d.salt, iv |-> d.iv, v |-> obj.v,
                         ct |-> d.ct, fn |-> obj.fn, ft |-> obj.ft,
                         nkeys |-> obj.nkeys, nunlock |-> obj.nunlock,
                         keys |-> d.keys, hasKeys |-> TRUE]
               IN IF d.threw
                  THEN Res(IF IsNull(d.salt) THEN k ELSE [k EXCEPT !.salt = d.salt],
                           TRUE, FALSE, NoLog)
                  ELSE Res([k EXCEPT !.salt = o.salt, !.nPasswords = o.nkeys,
                                     !.nToUnlock = o.nunlock, !.filename = o.fn,
                                     !.filetype = o.ft, !.iterations = o.iter,
                                     !.cipherobj = o],
                           FALSE, FALSE, NoLog)

\* setCipherJSON: nothing is assigned before the parse and the decoding are done
setCipherJSON(k, hasSjcl, data) ==
  IF ~data.wf THEN Res(k, TRUE, FALSE, NoLog)
  ELSE LET obj == data.obj
           isLegacy == isLegacyFormat(obj)
       IN IF isLegacy /\ ~hasSjcl THEN Res(k, TRUE, FALSE, NoLog)
          ELSE LET d == DecodeFields(obj, isLegacy)
                   o == [t |-> "obj", adata |-> obj.adata, iter |-> obj.iter,
                         mode |-> obj.mode, cipher |-> obj.cipher, ts |-> obj.ts,
                         ks |-> obj.ks, salt |-> d.salt, iv |-> d.iv, v |-> obj.v,
                         ct |-> d.ct, fn |-> obj.fn, ft |-> obj.ft,
                         nkeys |-> obj.nkeys, nunlock |-> obj.nunlock,
                         keys |-> d.keys, hasKeys |-> TRUE]
               IN IF d.threw THEN Res(k, TRUE, FALSE, NoLog)
                  ELSE Res([k EXCEPT !.salt = o.salt, !.nPasswords = o.nkeys,
                                     !.nToUnlock = o.nunlock, !.filename = o.fn,
                                     !.filetype = o.ft, !.iterations = o.iter,
                                     !.cipherobj = o],
                           FALSE, FALSE, NoLog)

\* the strings of at most n characters of A
RECURSIVE StringsUpTo(_, _)
StringsUpTo(A, n) ==
  IF n = 0 THEN {<<>>}
  ELSE LET shorter == StringsUpTo(A, n - 1)
       IN shorter \cup {Append(s, c) : s \in {t \in shorter : Len(t) = n - 1}, c \in A}

\* the strings normalizeString is given
RawStrings == StringsUpTo(Alphabet, MaxStrLen)

\* the passwords of the lists makeCombinedPasswords is given
RawPasswords == StringsUpTo({"a", "b", " "}, MaxPwLen)

RECURSIVE ListsUpTo(_, _)
ListsUpTo(S, n) ==
  IF n = 0 THEN {<<>>}
  ELSE LET shorter == ListsUpTo(S, n - 1)
       IN shorter \cup {Append(l, x) : l \in {t \in shorter : Len(t) = n - 1}, x \in S}

(***************************************************************************)
(* Inputs                                                                  *)
(***************************************************************************)
PwA == <<"a">>
PwB == <<"b">>
PwAB == <<"a", " ", "b">>
PwAA == <<"a", " ", "a">>
PwWsA == <<" ", "a">>
Blank == <<>>

\* the password lists an encryption is given: two distinct passwords out of
\* order; two that are equal once normalized; three distinct ones, one of
\* them with an interior space
EncLists == {<<PwB, PwA>>, <<PwA, PwWsA>>, <<PwB, PwAB, PwA>>}

\* the password lists offered at decryption: one password; two originals out
\* of order; a pair that joins to the same text as "a" with "a b"; one
\* password twice; three originals
TryLists == {<<PwA>>, <<PwB, PwA>>, <<PwAA, PwB>>, <<PwA, PwA>>, <<PwB, PwA, PwAB>>}

\* what is typed into the page's passcode fields: the above, nothing at all,
\* and two originals with a wrong passcode between them
PageLists == TryLists \cup {<<>>, <<PwA, PwAA, PwB>>}

\* longer lists given to makeCombinedPasswords: three passwords, and four of
\* which two pairs join to the same text
LongLists == {<<PwB, PwAB, PwA>>, <<PwB, PwAA, PwA, PwAB>>}

\* the files setPlaintext is given: bytes, name, type
PlainFiles == {1}
FileName(id) == IF id = 1 THEN "f1" ELSE "f2"

\* a version-1 file written by the SJCL engine for the passwords a and b,
\* any one of which unlocks it
LegacySalt == Fresh("salt", 0, 0)
LegacyMaster == Fresh("master", 0, 0)
LegacyPlain == FileBytes(0)
B64(x) == [t |-> "b64", of |-> x]
LegacyKey(password, i) ==
  [iv |-> B64(Fresh("keyiv", 0, i)),
   key |-> B64(Box("ccm", Pbkdf2(password, LegacySalt, pbkdf2_iterations), Fresh("keyiv", 0, i),
                   LegacyMaster))]
LegacyFile ==
  Stringify([v |-> Absent, mode |-> "ccm", cipher |-> "aes", ts |-> 64, ks |-> 256,
             iter |-> pbkdf2_iterations, adata |-> "", fn |-> FileName(1), ft |-> "text",
             nkeys |-> 2, nunlock |-> 1,
             salt |-> B64(LegacySalt), iv |-> B64(Fresh("iv", 0, 0)),
             ct |-> B64(Box("ccm", LegacyMaster, Fresh("iv", 0, 0), LegacyPlain)),
             keys |-> <<LegacyKey(PwB, 1), LegacyKey(PwA, 2)>>])

\* a file with one byte of ct changed, and with one byte of keys[i].key changed
AlterCt(data) == [data EXCEPT !.obj.ct = B64(Alter(@.of))]
AlterKey(data, i) == [data EXCEPT !.obj.keys[i].key = B64(Alter(@.of))]

\* the texts setCipherJSON can be given: the legacy file, the envelope the
\* engine last returned, and that envelope with one byte altered
Loadable ==
  {LegacyFile}
  \cup (IF out.wf
        THEN {out, AlterCt(out)} \cup (IF out.obj.keys = <<>> THEN {} ELSE {AlterKey(out, 1)})
        ELSE {})

\* texts on which setCipherJSON ends in an exception: no JSON at all, and the
\* envelope the engine last returned without its ct property, or with the iv
\* of its first wrapped key missing
Malformed ==
  {NoJson}
  \cup (IF out.wf
        THEN {[out EXCEPT !.obj.ct = Null]}
             \cup (IF out.obj.keys = <<>> THEN {}
                   ELSE {[out EXCEPT !.obj.keys[1].iv = Null]})
        ELSE {})

(***************************************************************************)
(* The engine specification                                                *)
(***************************************************************************)
NoCall == [f |-> "none", arg |-> <<>>, m |-> 0, val |-> <<>>]

NoEnc == [pw |-> <<>>, m |-> 0, pt |-> Null, wrapped |-> <<>>]

Call(op, threw, ok, alerts) ==
  [op |-> op, threw |-> threw, ok |-> ok, alerts |-> alerts]

InitEng ==
  /\ kb = InitKb
  /\ sjcl \in BOOLEAN
  /\ rnd = [salt |-> 0, enc |-> 0]
  /\ out = NoJson
  /\ enc = NoEnc
  /\ call = Call("init", FALSE, FALSE, <<>>)

\* an inbound message of the worker: the function name, its parameters and
\* the progress flag; id numbers the messages in the order they were posted
Request(f, p, c, id) == [f |-> f, p |-> p, c |-> c, id |-> id]

\* the parameters p of a message, one field per parameter that any of the
\* three functions takes
NoParams == [passwords |-> <<>>, nUnlock |-> 0, data |-> Null, fn |-> "", ft |-> ""]

\* the worker and the page once kbp.setupWorker has run: the worker is
\* constructed and the makeSalt message is on its way
InitWorker ==
  /\ inbox = <<Request("makeSalt", NoParams, FALSE, 1)>>
  /\ posted = <<Request("makeSalt", NoParams, FALSE, 1)>>
  /\ outbox = <<>>
  /\ sent = <<>>
  /\ wkb = InitKb
  /\ todo = <<>>
  /\ page = [ready |-> FALSE, reading |-> <<>>, bound |-> 0, alert |-> FALSE,
             linked |-> {}]

Init ==
  /\ InitEng
  /\ strIn = <<>>
  /\ strOut = NoCall
  /\ InitWorker

MakeSalt ==
  /\ rnd.salt < MaxSalt
  /\ rnd' = [rnd EXCEPT !.salt = @ + 1]
  /\ kb' = makeSalt(kb, rnd.salt + 1)
  /\ call' = Call("makeSalt", FALSE, FALSE, <<>>)
  /\ UNCHANGED <<sjcl, out, enc>>
  /\ UNCHANGED strVars
  /\ UNCHANGED wkVars

SetPlaintext ==
  /\ \E id \in PlainFiles : kb' = setPlaintext(kb, FileBytes(id), FileName(id), "text")
  /\ call' = Call("setPlaintext", FALSE, TRUE, <<>>)
  /\ UNCHANGED <<sjcl, rnd, out, enc>>
  /\ UNCHANGED strVars
  /\ UNCHANGED wkVars

EncryptWithPasswords ==
  /\ rnd.enc < MaxEnc
  /\ \E passwords \in EncLists :
     \E nUnlock \in 0..(Len(passwords) + 1) :
       /\ \E r \in encryptWithPasswords(kb, sjcl, passwords, nUnlock, rnd.enc + 1) :
            /\ kb' = r.kb
            /\ out' = IF r.threw THEN out ELSE r.ret
            /\ enc' = IF r.threw THEN enc
                      ELSE [pw |-> passwords, m |-> nUnlock, pt |-> kb.plaintext,
                            wrapped |-> r.wrapped]
            /\ call' = Call("encryptWithPasswords", r.threw, ~r.threw, <<>>)
  /\ rnd' = [rnd EXCEPT !.enc = @ + 1]
  /\ UNCHANGED sjcl
  /\ UNCHANGED strVars
  /\ UNCHANGED wkVars

SetCipherJSON ==
  /\ \E data \in Loadable \cup Malformed :
       LET r == setCipherJSON(kb, sjcl, data)
       IN /\ kb' = r.kb
          /\ call' = Call("setCipherJSON", r.threw, FALSE, <<>>)
  /\ UNCHANGED <<sjcl, rnd, out, enc>>
  /\ UNCHANGED strVars
  /\ UNCHANGED wkVars

MakeKeyCombinations ==
  /\ kb.nToUnlock # NoInt
  /\ \E passwords \in TryLists, nToUnlock \in {kb.nToUnlock} :
       LET r == makeKeyCombinations(kb, sjcl, passwords, nToUnlock)
       IN /\ kb' = r.kb
          /\ call' = Call("makeKeyCombinations", r.threw, FALSE, <<>>)
  /\ UNCHANGED <<sjcl, rnd, out, enc>>
  /\ UNCHANGED strVars
  /\ UNCHANGED wkVars

DecryptKeys ==
  /\ LET r == decryptKeys(kb, sjcl)
     IN /\ kb' = r.kb
        /\ call' = Call("decryptKeys", r.threw, r.ret, <<>>)
  /\ UNCHANGED <<sjcl, rnd, out, enc>>
  /\ UNCHANGED strVars
  /\ UNCHANGED wkVars

DecryptCiphertext ==
  /\ LET r == decryptCiphertext(kb, sjcl)
     IN /\ kb' = r.kb
        /\ call' = Call("decryptCiphertext", r.threw, FALSE, <<>>)
  /\ UNCHANGED <<sjcl, rnd, out, enc>>
  /\ UNCHANGED strVars
  /\ UNCHANGED wkVars

(***************************************************************************)
(* The page (kbp): the decryption handler, which runs on the engine of the *)
(* page's own context                                                      *)
(***************************************************************************)
RECURSIVE NonBlank(_)
NonBlank(l) ==
  IF l = <<>> THEN <<>>
  ELSE IF Head(l) = <<>> THEN NonBlank(Tail(l)) ELSE <<Head(l)>> \o NonBlank(Tail(l))

\* arr.slice(0, end): a negative end counts from the end of the array, and
\* an end past the last element stops there
slice0(arr, end) ==
  SubSeq(arr, 1, IF end >= Len(arr) THEN Len(arr)
                 ELSE IF end >= 0 THEN end
                 ELSE IF Len(arr) + end > 0 THEN Len(arr) + end ELSE 0)

\* a plausible slip: the count of passcodes is not checked
getMDecPass_NoCheck(fields, m) ==
  LET passwords == NonBlank(NormalizeAll(fields))
  IN {[alert |-> FALSE, passwords |-> SortStrings(slice0(s, m))] : s \in shuffle(passwords)}

\* a plausible slip: the blank fields are not left out
getMDecPass_KeepBlank(fields, m) ==
  LET passwords == NormalizeAll(fields)
  IN IF Len(passwords) < m THEN {[alert |-> TRUE, passwords |-> passwords]}
     ELSE {[alert |-> FALSE,
            passwords |-> SortStrings(slice0(s, m))]
           : s \in shuffle(passwords)}

\* kbp.getMDecPass(n, m) over the n passcode fields: what it can return, and
\* whether it raised the insufficient-passcodes alert
getMDecPass(fields, m) ==
  LET passwords == NonBlank(NormalizeAll(fields))
  IN IF Len(passwords) < m THEN {[alert |-> TRUE, passwords |-> passwords]}
     ELSE {[alert |-> FALSE,
            passwords |-> SortStrings(slice0(s, m))]
           : s \in shuffle(passwords)}

AddLog(a, b) ==
  [kdf |-> a.kdf \o b.kdf, opens |-> a.opens \o b.opens, popen |-> a.popen + b.popen,
   seal |-> a.seal \o b.seal]

\* kbp.decrypt after getMDecPass returned g: linked says a download link to
\* the plaintext was made
kbpDecryptWith(k, hasSjcl, g, m) ==
  LET pre == IF g.alert THEN <<"insufficient">> ELSE <<>>
      mk == makeKeyCombinations(k, hasSjcl, g.passwords, m)
      dk == decryptKeys(mk.kb, hasSjcl)
      dc == decryptCiphertext(dk.kb, hasSjcl)
      Out(r, threw, ok, alerts, log, linked) ==
        [kb |-> r.kb, threw |-> threw, ok |-> ok, alerts |-> pre \o alerts,
         log |-> log, linked |-> linked]
  IN IF mk.threw THEN Out(mk, TRUE, FALSE, <<"error">>, mk.log, FALSE)
     ELSE IF dk.threw THEN Out(dk, TRUE, FALSE, <<"error">>, AddLog(mk.log, dk.log), FALSE)
     ELSE IF ~dk.ret THEN Out(dk, FALSE, FALSE, <<"wrong">>, AddLog(mk.log, dk.log), FALSE)
     ELSE IF dc.threw
          THEN Out(dc, TRUE, TRUE, <<"error">>, AddLog(AddLog(mk.log, dk.log), dc.log), FALSE)
     ELSE Out(dc, FALSE, TRUE, <<>>, AddLog(AddLog(mk.log, dk.log), dc.log), TRUE)

\* kbp.decrypt over the passcode fields: its outcomes, one per draw of getMDecPass
kbpDecrypt(k, hasSjcl, fields) ==
  IF IsNull(k.cipherobj)
  THEN {[kb |-> k, threw |-> FALSE, ok |-> FALSE, alerts |-> <<"load">>, log |-> NoLog,
         linked |-> FALSE]}
  ELSE {kbpDecryptWith(k, hasSjcl, g, k.nToUnlock) : g \in getMDecPass(fields, k.nToUnlock)}

\* the n passcode fields with the list typed into the first of them
Fields(typed, n) == [i \in 1..n |-> IF i <= Len(typed) THEN typed[i] ELSE Blank]

KbpDecrypt ==
  /\ \E typed \in PageLists :
       /\ IF IsNull(kb.cipherobj) THEN TRUE ELSE Len(typed) <= kb.cipherobj.nkeys
       /\ \E r \in kbpDecrypt(kb, sjcl,
                     IF IsNull(kb.cipherobj) THEN typed
                     ELSE Fields(typed, kb.cipherobj.nkeys)) :
            /\ kb' = r.kb
            /\ call' = Call("kbp.decrypt", r.threw, r.ok, r.alerts)
  /\ UNCHANGED <<sjcl, rnd, out, enc>>
  /\ UNCHANGED strVars
  /\ UNCHANGED wkVars

Next ==
  \/ MakeSalt
  \/ SetPlaintext
  \/ EncryptWithPasswords
  \/ SetCipherJSON
  \/ MakeKeyCombinations
  \/ DecryptKeys
  \/ DecryptCiphertext
  \/ KbpDecrypt

Spec == Init /\ [][Next]_vars

(***************************************************************************)
(* The string specification: the pure functions on bounded inputs          *)
(***************************************************************************)
InitStr ==
  /\ InitEng
  /\ sjcl = FALSE
  /\ strIn \in {<<s>> : s \in RawStrings}
              \cup {l \in ListsUpTo(RawPasswords, MaxList) : Len(l) >= 1}
              \cup LongLists
  /\ strOut = NoCall
  /\ InitWorker

CallNormalizeString ==
  /\ UNCHANGED engVars
  /\ UNCHANGED wkVars
  /\ \E i \in 1..Len(strIn) :
       strOut' = [f |-> "normalizeString", arg |-> <<strIn[i]>>, m |-> 0,
                  val |-> <<normalizeString(strIn[i])>>]
  /\ UNCHANGED strIn

CallMakeCombinedPasswords ==
  /\ UNCHANGED engVars
  /\ UNCHANGED wkVars
  /\ \E m \in 1..Len(strIn) :
       strOut' = [f |-> "makeCombinedPasswords", arg |-> strIn, m |-> m,
                  val |-> makeCombinedPasswords(strIn, m).val]
  /\ UNCHANGED strIn

\* the version fields and the modes isLegacyFormat is given
Versions == {Absent, 0, 1, 2, 3}
Modes == {"ccm", "ocb2", "chacha20poly1305"}

CallIsLegacyFormat ==
  /\ UNCHANGED engVars
  /\ UNCHANGED wkVars
  /\ \E v \in Versions, mode \in Modes :
       strOut' = [f |-> "isLegacyFormat", arg |-> <<mode>>, m |-> v,
                  val |-> <<isLegacyFormat([v |-> v, mode |-> mode])>>]
  /\ UNCHANGED strIn

NextStr == CallNormalizeString \/ CallMakeCombinedPasswords \/ CallIsLegacyFormat

SpecStr == InitStr /\ [][NextStr]_vars

(***************************************************************************)
(* noble.randomIntegers, over raw words of WordBits bits.  The raw words   *)
(* the call draws are an input: the first count of them fill randomInts,   *)
(* the following ones are what the while loop draws, in order.             *)
(***************************************************************************)
\* the largest raw word, 0xFFFFFFFF in the code
WordMax == 2^WordBits - 1

\* a plausible slip: the bound is not rounded down to a multiple of max
maxValid_NoFloor(max) == WordMax

\* const maxValid = Math.floor(0xFFFFFFFF / max) * max
maxValid(max) == (WordMax \div max) * max

\* while (value >= maxValid) value = <the next raw word>; ok is FALSE if the
\* loop is still running when the draws are used up
RECURSIVE Resample(_, _, _)
Resample(value, draws, mv) ==
  IF value < mv THEN [ok |-> TRUE, value |-> value, draws |-> draws]
  ELSE IF draws = <<>> THEN [ok |-> FALSE, value |-> value, draws |-> draws]
  ELSE Resample(Head(draws), Tail(draws), mv)

\* the for loop from index i on: result is the array returned, used the raw
\* word each entry was reduced from
RECURSIVE randomIntegersFrom(_, _, _, _, _, _)
randomIntegersFrom(max, randomInts, i, draws, result, used) ==
  IF i > Len(randomInts) THEN [ok |-> TRUE, val |-> result, used |-> used]
  ELSE LET w == Resample(randomInts[i], draws, maxValid(max))
       IN IF ~w.ok THEN [ok |-> FALSE, val |-> result, used |-> used]
          ELSE randomIntegersFrom(max, randomInts, i + 1, w.draws,
                                  Append(result, w.value % max), Append(used, w.value))

\* randomIntegers(max, count) on the raw words raws
randomIntegers(max, count, raws) ==
  randomIntegersFrom(max, SubSeq(raws, 1, count), 1, SubSeq(raws, count + 1, Len(raws)),
                     <<>>, <<>>)

RawWords == ListsUpTo(0..WordMax, MaxDraws)

InitRnd ==
  /\ InitEng
  /\ sjcl = FALSE
  /\ strIn \in {in \in (1..WordMax) \X (0..MaxDraws) \X RawWords : Len(in[3]) >= in[2]}
  /\ strOut = NoCall
  /\ InitWorker

\* one call, enabled if the raw words suffice for the call to return
CallRandomIntegers ==
  /\ UNCHANGED engVars
  /\ UNCHANGED wkVars
  /\ LET r == randomIntegers(strIn[1], strIn[2], strIn[3])
     IN /\ r.ok
        /\ strOut' = [f |-> "randomIntegers", arg |-> <<strIn[1], strIn[2]>>, m |-> 0,
                      val |-> r.val, used |-> r.used]
  /\ UNCHANGED strIn

NextRnd == CallRandomIntegers

SpecRnd == InitRnd /\ [][NextRnd]_vars

(***************************************************************************)
(* The worker (kb-worker.js) and the page handlers that talk to it         *)
(***************************************************************************)
\* an outbound message of the worker: {f, c} (kind "c", a progress fraction
\* <<numerator, denominator>>) or {f, r} (kind "r", the result); id is the id
\* of the inbound message it answers
Reply(f, kind, val, id) == [f |-> f, kind |-> kind, val |-> val, id |-> id]

\* the arguments of the progress callback over one makeKeyCombinations that
\* derives n keys: 0, then (i + 1) / n after each derivation, then 1
progressCalls(n) == <<<<0, 1>>>> \o [i \in 1..n |-> <<i, n>>] \o <<<<1, 1>>>>

\* a plausible slip: the result is posted before the progress messages
onmessage_ResultFirst(k, data) ==
  LET post(kind, val) == Reply(data.f, kind, val, data.id)
  IN CASE data.f = "makeSalt" -> {[kb |-> makeSalt(k, data.id), posts |-> <<>>]}
       [] data.f = "setPlaintext" ->
            {[kb |-> setPlaintext(k, data.p.data, data.p.fn, data.p.ft),
              posts |-> <<post("r", TRUE)>>]}
       [] OTHER ->
            LET mk == makeKeyCombinations(k, FALSE, data.p.passwords, data.p.nUnlock)
                calls == IF mk.threw THEN <<>> ELSE progressCalls(Len(mk.kb.keys))
                progress == [i \in 1..Len(calls) |-> post("c", calls[i])]
            IN {[kb |-> r.kb,
                 posts |-> (IF r.threw THEN <<>> ELSE <<post("r", r.ret)>>) \o progress]
                : r \in encryptWithPasswords(k, FALSE, data.p.passwords, data.p.nUnlock,
                                             data.id)}

\* self.onmessage on the message data, with the engine k: the engine it
\* leaves and the messages it posts, in order.  An exception ends the handler
\* where it is thrown: makeCombinedPasswords throws before the first
\* callback, a derivation after callback(0), encryptPlaintext after the last
\* callback.  The worker's context has no sjcl.
onmessage(k, data) ==
  LET post(kind, val) == Reply(data.f, kind, val, data.id)
  IN CASE data.f = "makeSalt" -> {[kb |-> makeSalt(k, data.id), posts |-> <<>>]}
       [] data.f = "setPlaintext" ->
            {[kb |-> setPlaintext(k, data.p.data, data.p.fn, data.p.ft),
              posts |-> <<post("r", TRUE)>>]}
       [] OTHER ->
            LET mk == makeKeyCombinations(k, FALSE, data.p.passwords, data.p.nUnlock)
                calls == IF makeCombinedPasswords(data.p.passwords, data.p.nUnlock).threw
                         THEN <<>>
                         ELSE IF mk.threw THEN <<<<0, 1>>>>
                         ELSE progressCalls(Len(mk.kb.keys))
                progress == IF data.c THEN [i \in 1..Len(calls) |-> post("c", calls[i])]
                            ELSE <<>>
            IN {[kb |-> r.kb,
                 posts |-> progress \o (IF r.threw THEN <<>> ELSE <<post("r", r.ret)>>)]
                : r \in encryptWithPasswords(k, FALSE, data.p.passwords, data.p.nUnlock,
                                             data.id)}

\* a plausible slip: a message is taken while a handler is still running
Idle_Always(running) == TRUE

\* the worker's event loop takes the next message only when no handler runs
Idle(running) == running = <<>>

\* the worker's event loop takes the oldest message
WorkerTakes ==
  /\ inbox # <<>>
  /\ Idle(todo)
  /\ inbox' = Tail(inbox)

\* the worker takes the oldest message and runs self.onmessage on it
WorkerOnmessage ==
  /\ WorkerTakes
  /\ \E o \in onmessage(wkb, Head(inbox)) :
       /\ wkb' = o.kb
       /\ todo' = o.posts \o todo
  /\ UNCHANGED <<outbox, page, posted, sent>>
  /\ UNCHANGED engVars
  /\ UNCHANGED strVars

\* the running handler makes its next self.postMessage call
WorkerPostMessage ==
  /\ todo # <<>>
  /\ outbox' = Append(outbox, Head(todo))
  /\ sent' = Append(sent, Head(todo))
  /\ todo' = Tail(todo)
  /\ UNCHANGED <<inbox, wkb, page, posted>>
  /\ UNCHANGED engVars
  /\ UNCHANGED strVars

\* the files the page can be given to encrypt, and the passcode fields it can
\* hold when #encrypt is clicked (the last with a blank field)
PageFiles == {1, 2}
EncryptFields == {<<PwB, PwA>>, <<PwA, Blank>>}

\* the page has posted the messages msgs to the worker
PostAll(msgs) ==
  /\ inbox' = inbox \o msgs
  /\ posted' = posted \o msgs

\* how many plaintext files have been chosen so far
Chosen == Len(page.reading) + Cardinality({i \in 1..Len(posted) : posted[i].f = "setPlaintext"})

\* kbp.choosePlaintextFile with a file: the page's own engine gets an
\* (empty) plaintext at once, and a FileReader starts on the file
ChoosePlaintextFile ==
  /\ Chosen < MaxFile
  /\ Len(posted) + Len(page.reading) < MaxPost
  /\ \E id \in PageFiles :
       page' = [page EXCEPT !.ready = TRUE, !.reading = Append(@, id)]
  /\ UNCHANGED <<inbox, outbox, wkb, todo, posted, sent>>
  /\ UNCHANGED engVars
  /\ UNCHANGED strVars

\* reader.onload of one of the running FileReaders: setPlaintext is posted
ReaderOnload ==
  /\ \E i \in 1..Len(page.reading) :
       /\ page' = [page EXCEPT !.reading = SubSeq(@, 1, i - 1) \o SubSeq(@, i + 1, Len(@))]
       /\ PostAll(<<Request("setPlaintext",
                            [NoParams EXCEPT !.data = FileBytes(page.reading[i]),
                                             !.fn = FileName(page.reading[i]),
                                             !.ft = "text"],
                            FALSE, Len(posted) + 1)>>)
  /\ UNCHANGED <<outbox, wkb, todo, sent>>
  /\ UNCHANGED engVars
  /\ UNCHANGED strVars

\* kbp.chooseEncryptedFile with a file, as far as encryption goes: the click
\* handlers of #encrypt are unbound
ChooseEncryptedFile ==
  /\ page' = [page EXCEPT !.bound = 0]
  /\ UNCHANGED <<inbox, outbox, wkb, todo, posted, sent>>
  /\ UNCHANGED engVars
  /\ UNCHANGED strVars

\* kbp.kb.onmessage on the message e of the worker, with the page p: a
\* setPlaintext answer binds kbp.encrypt to #encrypt once more; a result of
\* encryptWithPasswords becomes the download link
kbOnmessage(p, e) ==
  CASE e.f = "setPlaintext" -> [p EXCEPT !.bound = @ + 1]
    [] e.f = "encryptWithPasswords" /\ e.kind = "r" -> [p EXCEPT !.linked = @ \cup {e.id}]
    [] OTHER -> p

\* the page takes the oldest message of the worker
KbOnmessage ==
  /\ outbox # <<>>
  /\ page' = kbOnmessage(page, Head(outbox))
  /\ outbox' = Tail(outbox)
  /\ UNCHANGED <<inbox, wkb, todo, posted, sent>>
  /\ UNCHANGED engVars
  /\ UNCHANGED strVars

\* one run of kbp.encrypt over the passcode fields, with the threshold
\* selected: an alert, or the parameters of the message it posts
kbpEncrypt(ready, fields, nUnlock) ==
  LET passwords == NormalizeAll(fields)
  IN IF ~ready \/ \E i \in 1..Len(passwords) : Len(passwords[i]) = 0
     THEN [alert |-> TRUE, p |-> NoParams]
     ELSE [alert |-> FALSE,
           p |-> [NoParams EXCEPT !.passwords = passwords, !.nUnlock = nUnlock]]

\* a click on #encrypt: every handler bound to it runs kbp.encrypt
ClickEncrypt ==
  /\ page.bound >= 1
  /\ Len(posted) + Len(page.reading) + page.bound <= MaxPost
  /\ \E fields \in EncryptFields :
     \E nUnlock \in 1..Len(fields) :
       LET e == kbpEncrypt(page.ready, fields, nUnlock)
       IN /\ page' = [page EXCEPT !.alert = e.alert]
          /\ PostAll(IF e.alert THEN <<>>
                     ELSE [i \in 1..page.bound |->
                             Request("encryptWithPasswords", e.p, TRUE, Len(posted) + i)])
  /\ UNCHANGED <<outbox, wkb, todo, sent>>
  /\ UNCHANGED engVars
  /\ UNCHANGED strVars

NextWorker ==
  \/ WorkerOnmessage
  \/ WorkerPostMessage
  \/ ChoosePlaintextFile
  \/ ReaderOnload
  \/ ChooseEncryptedFile
  \/ KbOnmessage
  \/ ClickEncrypt

InitWorkerSpec ==
  /\ InitEng
  /\ sjcl = FALSE
  /\ strIn = <<>>
  /\ strOut = NoCall
  /\ InitWorker

SpecWorker == InitWorkerSpec /\ [][NextWorker]_vars

\* the worker's event loop keeps running: a waiting message is taken (a
\* step that takes one is a step of WorkerOnmessage, which is enabled
\* whenever taking is), and a running handler goes on
SpecWorkerLive ==
  /\ InitWorkerSpec
  /\ [][NextWorker]_vars
  /\ WF_inbox(WorkerTakes)
  /\ WF_vars(WorkerPostMessage)

(***************************************************************************)
(* Properties                                                              *)
(***************************************************************************)
\* the sub-list of list at the indices I, in list order
RECURSIVE PickFrom(_, _, _)
PickFrom(list, I, i) ==
  IF i > Len(list) THEN <<>>
  ELSE (IF i \in I THEN <<list[i]>> ELSE <<>>) \o PickFrom(list, I, i + 1)

Pick(list, I) == PickFrom(list, I, 1)

\* the index sets of the m-element subsets of a list of n
IndexSets(n, m) == {I \in SUBSET (1..n) : Cardinality(I) = m}

\* every arrangement of the sequence s
Perms(s) ==
  {[i \in 1..Len(s) |-> s[f[i]]] :
     f \in {g \in [1..Len(s) -> 1..Len(s)] :
              \A i, j \in 1..Len(s) : i # j => g[i] # g[j]}}

\* the number of k-element subsets of a set of n
RECURSIVE Binomial(_, _)
Binomial(n, k) ==
  IF k < 0 \/ k > n THEN 0
  ELSE IF k = 0 \/ k = n THEN 1
  ELSE Binomial(n - 1, k - 1) + Binomial(n - 1, k)

\* the last call of encryptWithPasswords that returned an envelope had a
\* threshold M in 1..N; out is that envelope, enc its passwords, M and plaintext
Built == out.wf /\ enc.m \in 1..Len(enc.pw)

\* makeKeyCombinations(S, M), decryptKeys, decryptCiphertext, one after the other
Attempt(k, hasSjcl, S, M) ==
  LET mk == makeKeyCombinations(k, hasSjcl, S, M)
      dk == decryptKeys(mk.kb, hasSjcl)
      dc == decryptCiphertext(dk.kb, hasSjcl)
  IN [threw |-> mk.threw \/ dk.threw \/ dc.threw, gotKey |-> dk.ret,
      plaintext |-> dc.kb.plaintext, combined |-> makeCombinedPasswords(S, M).val]

\* C1 (round trip): whatever state the engine is in, once encryptWithPasswords
\* has returned an envelope e for N passwords and a threshold M in 1..N,
\* setCipherJSON(e) followed by makeKeyCombinations(S, M), decryptKeys and
\* decryptCiphertext, for every M-element subset S of the passwords, ends
\* without an exception, with decryptKeys returning true and with the
\* plaintext that was encrypted.
C1_RoundTrip ==
  Built =>
    LET ld == setCipherJSON(kb, sjcl, out)
    IN /\ ~ld.threw
       /\ \A I \in IndexSets(Len(enc.pw), enc.m) :
            LET a == Attempt(ld.kb, sjcl, Pick(enc.pw, I), enc.m)
            IN ~a.threw /\ a.gotKey /\ a.plaintext = enc.pt

\* the engine holds the envelope last returned, as setCipherJSON stores it
HoldsOut ==
  /\ out.wf
  /\ ~IsNull(kb.cipherobj)
  /\ kb.cipherobj = setCipherJSON(InitKb, sjcl, out).kb.cipherobj
  /\ kb.salt = kb.cipherobj.salt

\* C1 witness: a run of the engine's own operations has gone through the whole
\* sequence for a 2-of-3 envelope: decryptCiphertext has just returned, with
\* one derived key (one subset) in _keys, and the plaintext is the original
C1_Witness ==
  /\ Built /\ HoldsOut
  /\ Len(enc.pw) = 3 /\ enc.m = 2
  /\ call.op = "decryptCiphertext" /\ ~call.threw
  /\ Len(kb.keys) = 1
  /\ kb.master = kb.cipherobj.ct.k
  /\ kb.plaintext = enc.pt

\* how many of the supplied passwords are, once normalized, passwords of pw
Originals(S, pw) ==
  Cardinality({i \in 1..Len(S) :
                 \E j \in 1..Len(pw) : normalizeString(S[i]) = normalizeString(pw[j])})

\* C2 (threshold enforcement), as claimed: with the envelope built for the
\* threshold M loaded, the flow of kbp.decrypt on supplied passwords of which
\* fewer than M are original passwords never gets a key (decryptKeys returns
\* false) and never makes the plaintext available.  The code violates it.
C2_ThresholdEnforced ==
  (Built /\ HoldsOut) =>
    \A S \in TryLists :
      Originals(S, enc.pw) < enc.m =>
        LET r == kbpDecryptWith(kb, sjcl, [alert |-> FALSE, passwords |-> S], enc.m)
        IN ~r.ok /\ ~r.linked

\* C3 (order independence): with the envelope loaded, every permutation of
\* every M-element subset of the original passwords gives makeCombinedPasswords
\* one Combination string, the same as the subset in its original order gives,
\* and makeKeyCombinations, decryptKeys, decryptCiphertext with that
\* permutation succeed and yield the plaintext.
C3_OrderIndependence ==
  (Built /\ HoldsOut) =>
    \A I \in IndexSets(Len(enc.pw), enc.m) :
      \A perm \in Perms(Pick(enc.pw, I)) :
        LET a == Attempt(kb, sjcl, perm, enc.m)
        IN /\ Len(a.combined) = 1
           /\ a.combined = makeCombinedPasswords(Pick(enc.pw, I), enc.m).val
           /\ ~a.threw /\ a.gotKey /\ a.plaintext = enc.pt

\* C3 witness: the 3-of-3 envelope for b, "a b", a has been opened with the
\* passwords given in the order b, a, "a b": the one derived key is that of
\* the Combination string "a a b b", and decryptCiphertext has returned
C3_Witness ==
  /\ Built /\ HoldsOut
  /\ enc.pw = <<PwB, PwAB, PwA>> /\ enc.m = 3
  /\ call.op = "decryptCiphertext" /\ ~call.threw
  /\ Len(kb.keys) = 1
  /\ kb.keys[1].pw = <<"a", " ", "a", " ", "b", " ", "b">>
  /\ kb.plaintext = enc.pt

\* C4 (wrapped-key count): every envelope encryptWithPasswords has returned,
\* whatever the engine did before the call, records nkeys = the number of
\* passwords given and nunlock = M, and has C(nkeys, nunlock) wrapped keys.
C4_KeyCount ==
  out.wf =>
    /\ out.obj.nkeys = Len(enc.pw)
    /\ out.obj.nunlock = enc.m
    /\ Len(out.obj.keys) = Binomial(out.obj.nkeys, out.obj.nunlock)

\* C4 witness: a 2-of-3 envelope with its three wrapped keys has just been
\* returned by an engine that had loaded the legacy file before
C4_Witness ==
  /\ out.wf
  /\ call.op = "encryptWithPasswords" /\ ~call.threw
  /\ out.obj.nkeys = 3 /\ out.obj.nunlock = 2 /\ Len(out.obj.keys) = 3
  /\ kb.filetype = "text" /\ sjcl

\* C5 (legacy is read-only), as claimed: in every reachable state
\* encryptWithPasswords derives every key and seals with the current
\* primitives, and an envelope it returns is not in the legacy format.  The
\* code violates it.
C5_LegacyReadOnly ==
  \A passwords \in EncLists :
    \A nUnlock \in 1..Len(passwords) :
      \A r \in encryptWithPasswords(kb, sjcl, passwords, nUnlock, rnd.enc + 1) :
        /\ \A i \in 1..Len(r.log.kdf) : r.log.kdf[i] = "noble"
        /\ \A i \in 1..Len(r.log.seal) : r.log.seal[i] = "noble"
        /\ ~r.threw => ~isLegacyFormat(r.ret.obj)

\* no whitespace at either end and no two spaces in a row
Trimmed(s) ==
  /\ s # <<>> => ~IsWs(s[1]) /\ ~IsWs(s[Len(s)])
  /\ \A j \in 1..(Len(s) - 1) : ~(s[j] = " " /\ s[j + 1] = " ")

\* C6 (whitespace normalization): the result of normalizeString is a fixed
\* point of normalizeString, has no whitespace at either end and no run of two
\* spaces; and the Combination list makeCombinedPasswords returns for a list
\* is the one it returns for that list normalized element by element, so that
\* two lists that are element-wise equal after normalization get the same
\* Combination list.
C6_Normalization ==
  /\ strOut.f = "normalizeString" =>
       /\ normalizeString(strOut.val[1]) = strOut.val[1]
       /\ Trimmed(strOut.val[1])
  /\ strOut.f = "makeCombinedPasswords" =>
       /\ NormalizeAll(NormalizeAll(strOut.arg)) = NormalizeAll(strOut.arg)
       /\ makeCombinedPasswords(NormalizeAll(strOut.arg), strOut.m).val = strOut.val

\* C6 witness: makeCombinedPasswords was given space-b and a-space with M = 2 and
\* returned the one Combination "a b"
C6_Witness ==
  /\ strOut.f = "makeCombinedPasswords"
  /\ strOut.arg = << <<" ", "b">>, <<"a", " ">> >>
  /\ strOut.m = 2
  /\ strOut.val = << <<"a", " ", "b">> >>

\* the bytes under a bitArray
Inner(x) == IF x.t = "bits" THEN x.of ELSE x

\* a ciphertext of which a byte was altered
Altered(x) == (Inner(x).t = "box" /\ ~Inner(x).ok) \/ Inner(x).t = "garbled"

\* C7 (failure closed): the plaintext and the master key the engine holds are
\* never what a cipher makes of an altered ciphertext; when the ct of the
\* loaded envelope is altered decryptCiphertext throws and leaves the
\* plaintext as it was; and no open that decryptKeys makes of an altered
\* wrapped key succeeds, so the master key it adopts, if any, comes from an
\* unaltered one.
C7_FailureClosed ==
  /\ kb.plaintext.t # "garbled"
  /\ Inner(kb.master).t # "garbled"
  /\ (~IsNull(kb.cipherobj) /\ Altered(kb.cipherobj.ct)) =>
       LET r == decryptCiphertext(kb, sjcl)
       IN /\ r.threw /\ r.kb.plaintext = kb.plaintext
          /\ call.op = "decryptCiphertext" => call.threw
  /\ (~IsNull(kb.cipherobj) /\ kb.cipherobj.hasKeys) =>
       LET r == decryptKeys(kb, sjcl)
       IN \A p \in 1..Len(r.log.opens) :
            r.log.opens[p].ok =>
              /\ ~Altered(kb.cipherobj.keys[r.log.opens[p].j].key)
              /\ Inner(r.kb.master) = Inner(kb.cipherobj.keys[r.log.opens[p].j].key).pt

\* C7 witness: the envelope was loaded with a byte of keys[0].key altered, the
\* one derived key is the key that wrapped key was sealed under, and
\* decryptKeys has returned false
C7_Witness ==
  /\ ~IsNull(kb.cipherobj) /\ kb.cipherobj.hasKeys
  /\ Len(kb.cipherobj.keys) >= 1 /\ Altered(kb.cipherobj.keys[1].key)
  /\ Len(kb.keys) = 1 /\ kb.keys[1] = kb.cipherobj.keys[1].key.k
  /\ call.op = "decryptKeys" /\ ~call.threw /\ ~call.ok

\* the wrapped keys as the envelope text stores them, decoded
StoredKeys(obj) ==
  [i \in 1..Len(obj.keys) |-> [iv |-> obj.keys[i].iv.of, key |-> obj.keys[i].key.of]]

\* C8 (wrapped-key order): the keys array of every envelope returned is an
\* arrangement of the wrapped keys made in combination order, and the arrays
\* shuffle can leave from those are all their arrangements.
C8_ShuffledOrder ==
  out.wf =>
    /\ StoredKeys(out.obj) \in Perms(enc.wrapped)
    /\ shuffle(enc.wrapped) = Perms(enc.wrapped)

\* C8 witness: an envelope with three wrapped keys in which the key of the
\* first combination is stored last and that of the second first
C8_Witness ==
  /\ out.wf /\ Len(enc.wrapped) = 3
  /\ StoredKeys(out.obj)[3] = enc.wrapped[1]
  /\ StoredKeys(out.obj)[1] = enc.wrapped[2]
  /\ call.op = "encryptWithPasswords"

\* in the envelope text obj, made under the master key master: no field is
\* the master key or a derived key, and every keys[i].key is the master key
\* sealed under a derived key
SealedOnly(obj, master) ==
  /\ \A x \in {obj.salt.of, obj.iv.of, obj.ct.of} : x # master /\ x.t # "dk"
  /\ \A i \in 1..Len(obj.keys) :
       /\ obj.keys[i].iv.of # master /\ obj.keys[i].iv.of.t # "dk"
       /\ obj.keys[i].key.of # master
       /\ obj.keys[i].key.of.t = "box"
       /\ obj.keys[i].key.of.pt = master
       /\ obj.keys[i].key.of.k.t = "dk"

\* C9 (no key in cleartext): in every envelope text returned by
\* encryptWithPasswords, and in the text getCipherJSON makes of a loaded
\* envelope of the current format, the master key (the key the payload is
\* sealed under) occurs only sealed under a derived key, in keys[i].key, and
\* no derived key occurs.
C9_NoCleartextKey ==
  /\ out.wf => SealedOnly(out.obj, out.obj.ct.of.k)
  /\ (~IsNull(kb.cipherobj) /\ kb.cipherobj.hasKeys /\ ~isLegacyFormat(kb.cipherobj)) =>
       LET j == getCipherJSON(kb)
       IN ~j.threw => SealedOnly(j.val.obj, j.val.obj.ct.of.k)

\* C9 witness: encryptWithPasswords has just returned a 2-of-3 envelope, and
\* the master key the engine still holds is the one its payload is sealed under
C9_Witness ==
  /\ out.wf /\ Len(out.obj.keys) = 3
  /\ call.op = "encryptWithPasswords" /\ ~call.threw
  /\ kb.master = out.obj.ct.of.k
  /\ kb.master.t = "rnd"

\* C10 (insufficient passwords): with an envelope loaded, whenever fewer than
\* M passcode fields are non-blank, kbp.decrypt raises the insufficient-
\* passcodes alert and derives no key, tries no wrapped key and does not open
\* the payload.
C10_Insufficient ==
  ~IsNull(kb.cipherobj) =>
    \A typed \in PageLists :
      (Len(typed) <= kb.cipherobj.nkeys
         /\ Len(NonBlank(NormalizeAll(typed))) < kb.nToUnlock) =>
        \A r \in kbpDecrypt(kb, sjcl, Fields(typed, kb.cipherobj.nkeys)) :
          /\ r.alerts # <<>> /\ r.alerts[1] = "insufficient"
          /\ r.log = NoLog
          /\ ~r.linked
          /\ r.kb.master = kb.master /\ r.kb.plaintext = kb.plaintext

\* C10 witness: kbp.decrypt has run on a 2-of-3 envelope and raised the
\* insufficient-passcodes alert, followed by the wrong-passcodes one
C10_Witness ==
  /\ Built /\ HoldsOut /\ Len(enc.pw) = 3 /\ enc.m = 2 /\ kb.nToUnlock = 2
  /\ call.op = "kbp.decrypt"
  /\ call.alerts = <<"insufficient", "wrong">>
  /\ kb.keys = <<>>

\* C11 (fresh salt and master key per build): when encryptWithPasswords has
\* just returned an envelope, whatever envelope a second call on the same
\* engine returns next carries another salt and is sealed under another
\* master key.
C11_FreshSaltAndMaster ==
  (call.op = "encryptWithPasswords" /\ ~call.threw /\ out.wf) =>
    \A passwords \in EncLists :
      \A nUnlock \in 1..Len(passwords) :
        \A r \in encryptWithPasswords(kb, sjcl, passwords, nUnlock, rnd.enc + 1) :
          ~r.threw => /\ r.ret.obj.salt # out.obj.salt
                      /\ r.kb.master # kb.master

\* the messages the worker has posted in answer to message id, in order
RepliesTo(id) ==
  LET Answers(m) == m.id = id
  IN SelectSeq(sent, Answers)

\* the requests of encryptWithPasswords with the progress flag posted so far
EncryptRequests ==
  {i \in 1..Len(posted) : posted[i].f = "encryptWithPasswords" /\ posted[i].c}

\* the answers to one request of encryptWithPasswords so far are well
\* ordered: first the progress messages, 0, then j/n for each of the n
\* combinations, then 1; then at most one result, which carries an envelope
\* and has nothing after it
OrderedReplies(id) ==
  LET ms == RepliesTo(id)
      n == Binomial(Len(posted[id].p.passwords), posted[id].p.nUnlock)
  IN \A j \in 1..Len(ms) :
       /\ ms[j].f = "encryptWithPasswords"
       /\ IF j <= n + 2
          THEN /\ ms[j].kind = "c"
               /\ ms[j].val = IF j = 1 THEN <<0, 1>>
                              ELSE IF j = n + 2 THEN <<1, 1>> ELSE <<j - 1, n>>
          ELSE /\ j = n + 3
               /\ j = Len(ms)
               /\ ms[j].kind = "r"
               /\ ms[j].val.wf

\* the worker has posted the result of request id
Answered(id) == \E j \in 1..Len(sent) : sent[j].id = id /\ sent[j].kind = "r"

\* C12 (worker protocol ordering): for every encryptWithPasswords message
\* with the progress flag that the page posts, the worker posts the progress
\* messages {f, c} of the derivations, then exactly one result message {f, r}
\* carrying the envelope, and nothing for that request after it; and every
\* such request does get its result.
C12_WorkerProtocol ==
  /\ [](\A id \in EncryptRequests : OrderedReplies(id))
  /\ \A id \in 1..MaxPost : (id \in EncryptRequests) ~> Answered(id)

\* a request over two combinations has been answered in full: four progress
\* messages, then the result
C12_Witness ==
  \E id \in EncryptRequests :
    /\ Len(RepliesTo(id)) = 5
    /\ RepliesTo(id)[5].kind = "r"
    /\ RepliesTo(id)[4].kind = "c"

\* the getters of the two counts
getNPasswords(k) == k.nPasswords
getNumToUnlock(k) == k.nToUnlock

\* the engine k reports the counts of the envelope it holds
ReportsLoaded(k) ==
  /\ getNPasswords(k) = k.cipherobj.nkeys
  /\ getNumToUnlock(k) = k.cipherobj.nunlock

\* C13 (N and M fixed after load): when setCipherJSON(e) has just returned,
\* getNPasswords() is e.nkeys and getNumToUnlock() is e.nunlock, and they
\* still are after makeKeyCombinations (with the threshold the engine
\* reports), after decryptKeys and after decryptCiphertext.
C13_CountsFixedAfterLoad ==
  (call.op = "setCipherJSON" /\ ~call.threw) =>
    /\ ReportsLoaded(kb)
    /\ \A S \in TryLists :
         LET mk == makeKeyCombinations(kb, sjcl, S, getNumToUnlock(kb))
             dk == decryptKeys(mk.kb, sjcl)
             dc == decryptCiphertext(dk.kb, sjcl)
         IN ReportsLoaded(mk.kb) /\ ReportsLoaded(dk.kb) /\ ReportsLoaded(dc.kb)

\* C14 (configuration errors rejected up front): with a salt and a plaintext
\* in place, encryptWithPasswords(passwords, M) with M > len(passwords) or
\* M < 1 ends in an exception (so returns nothing), with no key derived, no
\* master key drawn and nothing sealed; and no envelope that was returned
\* has such an M.
C14_ConfigRejected ==
  /\ out.wf => enc.m \in 1..Len(enc.pw)
  /\ (~IsNull(kb.salt) /\ ~IsNull(kb.plaintext)) =>
       \A passwords \in EncLists :
         \A nUnlock \in {0, Len(passwords) + 1} :
           \A r \in encryptWithPasswords(kb, sjcl, passwords, nUnlock, rnd.enc + 1) :
             /\ r.threw
             /\ r.log.kdf = <<>>
             /\ r.log.seal = <<>>
             /\ r.kb.master = kb.master

\* the file data with its first wrapped key left out
DropKey(data) == [data EXCEPT !.obj.keys = Tail(@)]

\* C15 (wrapped-key count checked at decryption): an envelope built for N
\* passwords and a threshold M in 1..N, with one of its C(N, M) wrapped keys
\* left out, is rejected with an exception either by setCipherJSON or, for
\* whatever passwords are then supplied, by decryptKeys.
C15_KeyCountChecked ==
  Built =>
    LET ld == setCipherJSON(kb, sjcl, DropKey(out))
    IN ld.threw \/
       \A S \in TryLists :
         LET mk == makeKeyCombinations(ld.kb, sjcl, S, out.obj.nunlock)
         IN decryptKeys(mk.kb, sjcl).threw

\* C16 (unknown version rejected): the envelope just built, with its version
\* changed to 3 and its mode left as it is, is rejected with an exception by
\* setCipherJSON.
C16_UnknownVersionRejected ==
  Built => setCipherJSON(kb, sjcl, [out EXCEPT !.obj.v = 3]).threw

\* the last setPlaintext message posted before message id (0 if there is none)
LastPlaintextBefore(id) ==
  LET earlier == {i \in 1..(id - 1) : posted[i].f = "setPlaintext"}
  IN IF earlier = {} THEN 0 ELSE CHOOSE i \in earlier : \A j \in earlier : j <= i

\* C17 (one request at a time): the worker posts every message of an earlier
\* request before any message of a later one, and a later request finds the
\* engine as the earlier ones left it: the envelope that answers an
\* encryptWithPasswords request carries the salt of the makeSalt request and
\* the file name and the plaintext of the last setPlaintext request before it.
C17_OneAtATime ==
  /\ \A i, j \in 1..Len(sent) : i < j => sent[i].id <= sent[j].id
  /\ \A j \in 1..Len(sent) :
       (sent[j].f = "encryptWithPasswords" /\ sent[j].kind = "r") =>
         LET set == LastPlaintextBefore(sent[j].id)
             e == sent[j].val.obj
         IN /\ set # 0
            /\ e.fn = posted[set].p.fn
            /\ e.ct.of.pt = posted[set].p.data
            /\ e.salt = B64(makeSalt(InitKb, 1).salt)

\* an encryption has been answered that was requested after two different
\* files had been set, one after the other
C17_Witness ==
  \E j \in 1..Len(sent) :
    /\ sent[j].f = "encryptWithPasswords" /\ sent[j].kind = "r"
    /\ sent[j].id = 4
    /\ posted[2].f = "setPlaintext" /\ posted[3].f = "setPlaintext"
    /\ posted[2].p.fn # posted[3].p.fn

\* the requests of encryptWithPasswords whose result the page has not yet
\* been handed
Outstanding == {id \in EncryptRequests : id \notin page.linked}

\* C18 (single request in flight): whatever files are chosen, whatever the
\* worker answers and however often #encrypt is clicked, the page has at most
\* one encryptWithPasswords request posted whose result it has not received.
C18_SingleInFlight == Cardinality(Outstanding) <= 1

\* the strings of list joined by single spaces
RECURSIVE JoinSpaces(_)
JoinSpaces(list) ==
  IF list = <<>> THEN <<>>
  ELSE IF Len(list) = 1 THEN list[1]
  ELSE list[1] \o <<" ">> \o JoinSpaces(Tail(list))

\* the index set J comes before I when both are written as increasing tuples
\* and compared lexicographically: the least index in only one of them is in J
TupleBefore(J, I) ==
  /\ J # I
  /\ LET d == (J \ I) \cup (I \ J)
     IN (CHOOSE x \in d : \A y \in d : x <= y) \in J

\* C19 (combination enumeration): for a list of N normalized passwords and M
\* in 1..N, makeCombinedPasswords returns exactly C(N, M) strings: the one at
\* position r is the passwords at the r-th M-element index set, in the
\* lexicographic order of increasing index tuples over the sorted list,
\* joined by single spaces with nothing before the first.
C19_Enumeration ==
  (strOut.f = "makeCombinedPasswords" /\ NormalizeAll(strOut.arg) = strOut.arg) =>
    LET sorted == SortStrings(strOut.arg)
        tuples == IndexSets(Len(sorted), strOut.m)
    IN /\ Len(strOut.val) = Binomial(Len(sorted), strOut.m)
       /\ \A I \in tuples :
            LET r == 1 + Cardinality({J \in tuples : TupleBefore(J, I)})
            IN r <= Len(strOut.val) /\ strOut.val[r] = JoinSpaces(Pick(sorted, I))

\* makeCombinedPasswords was given three normalized passwords with M = 2 and
\* returned three Combinations
C19_Witness ==
  /\ strOut.f = "makeCombinedPasswords"
  /\ NormalizeAll(strOut.arg) = strOut.arg
  /\ Len(strOut.arg) = 3
  /\ strOut.m = 2
  /\ Len(strOut.val) = 3

\* C20 (combination injectivity): for a list of distinct normalized
\* passwords, the Combination strings makeCombinedPasswords returns for two
\* distinct M-element subsets (two positions of its result) are distinct.
C20_DistinctCombinations ==
  (/\ strOut.f = "makeCombinedPasswords"
   /\ NormalizeAll(strOut.arg) = strOut.arg
   /\ \A i, j \in 1..Len(strOut.arg) : i # j => strOut.arg[i] # strOut.arg[j]) =>
    \A i, j \in 1..Len(strOut.val) : i # j => strOut.val[i] # strOut.val[j]

\* the test decryptKeys and decryptCiphertext dispatch on
UsesLegacy(k, hasSjcl) == hasSjcl /\ isLegacyFormat(k.cipherobj)

\* C21 (dispatch consistency): in every state in which the engine holds a
\* complete envelope, the three decryption steps use the same engine, the
\* legacy one if isLegacyFormat(envelope) and the current one otherwise: every
\* key makeKeyCombinations derives comes from that engine's derivation, and
\* decryptKeys and decryptCiphertext dispatch to that engine.
C21_DispatchConsistency ==
  (~IsNull(kb.cipherobj) /\ kb.cipherobj.hasKeys) =>
    LET want == IF isLegacyFormat(kb.cipherobj) THEN "legacy" ELSE "noble"
    IN /\ (IF UsesLegacy(kb, sjcl) THEN "legacy" ELSE "noble") = want
       /\ \A S \in TryLists :
            LET mk == makeKeyCombinations(kb, sjcl, S, getNumToUnlock(kb))
            IN \A i \in 1..Len(mk.log.kdf) : mk.log.kdf[i] = want

\* C22 (legacy detection): isLegacyFormat is true exactly when the version
\* field is absent or is 1, or the mode is ccm or ocb2.
C22_LegacyDetection ==
  strOut.f = "isLegacyFormat" =>
    (strOut.val[1] <=> \/ strOut.m = Absent
                       \/ strOut.m = 1
                       \/ strOut.arg[1] \in {"ccm", "ocb2"})

\* what opening wrapped-key entry j of the envelope of k with derived key i
\* recovers, with the engine decryptKeys dispatches to; Null if the pair does
\* not authenticate
Recovered(k, hasSjcl, i, j) ==
  IF UsesLegacy(k, hasSjcl)
  THEN decryptKeyLegacy(k.cipherobj, k.keys[i], k.cipherobj.keys[j])
  ELSE LET r == decryptChaCha20Poly1305(k.keys[i], k.cipherobj.keys[j].key,
                                        k.cipherobj.keys[j].iv)
       IN IF r.threw THEN Null ELSE r.val

\* C23 (trial loop): with a complete envelope in the engine, decryptKeys ends
\* without an exception and returns true if and only if some pair (derived
\* key i, wrapped key j) authenticates; its open attempts are the pairs in
\* the order of i then j, from (1, 1) on without a gap; only the last attempt
\* can be a success, and then the master key is what that pair recovered;
\* with no success every pair has been tried.
C23_TrialLoop ==
  (~IsNull(kb.cipherobj) /\ kb.cipherobj.hasKeys) =>
    LET r == decryptKeys(kb, sjcl)
        nk == Len(kb.keys)
        nc == Len(kb.cipherobj.keys)
        o == r.log.opens
        n == Len(o)
        auth(i, j) == ~IsNull(Recovered(kb, sjcl, i, j))
    IN /\ ~r.threw
       /\ r.ret <=> \E i \in 1..nk, j \in 1..nc : auth(i, j)
       /\ \A p \in 1..n :
            /\ o[p].i \in 1..nk /\ o[p].j \in 1..nc
            /\ o[p].ok <=> auth(o[p].i, o[p].j)
            /\ p < n => ~o[p].ok
            /\ IF p = 1 THEN o[p].i = 1 /\ o[p].j = 1
               ELSE IF o[p - 1].j < nc
                    THEN o[p].i = o[p - 1].i /\ o[p].j = o[p - 1].j + 1
                    ELSE o[p].i = o[p - 1].i + 1 /\ o[p].j = 1
       /\ IF r.ret
          THEN n >= 1 /\ o[n].ok /\ r.kb.master = Recovered(kb, sjcl, o[n].i, o[n].j)
          ELSE n = nk * nc

\* keys have just been derived from which decryptKeys recovers the master
\* key at a later pair than the first, with pairs left untried after it
C23_Witness ==
  /\ call.op = "makeKeyCombinations" /\ ~call.threw
  /\ ~IsNull(kb.cipherobj) /\ kb.cipherobj.hasKeys
  /\ decryptKeys(kb, sjcl).ret
  /\ Len(decryptKeys(kb, sjcl).log.opens) >= 2
  /\ Len(decryptKeys(kb, sjcl).log.opens) < Len(kb.keys) * Len(kb.cipherobj.keys)

\* the passwords typed into the fields, normalized, blank ones left out
Entered(typed) == NonBlank(NormalizeAll(typed))

\* how often the string x occurs in the list l
Occurs(x, l) == Cardinality({i \in 1..Len(l) : l[i] = x})

\* kbp.decrypt on the typed passwords decrypts under every draw of the shuffle
DecryptsAlways(typed) ==
  \A r \in kbpDecrypt(kb, sjcl, Fields(typed, kb.cipherobj.nkeys)) :
    /\ ~r.threw /\ r.ok /\ r.linked
    /\ r.alerts = <<>>
    /\ r.kb.plaintext = enc.pt

\* the engine holds the envelope last returned and reports its threshold M
LoadedForM == Built /\ HoldsOut /\ getNumToUnlock(kb) = enc.m

\* C24 (any selection decrypts), as claimed: with the envelope built for the
\* threshold M loaded, whenever at least M passwords are entered and every
\* entered password is one of the original passwords, kbp.decrypt succeeds
\* for every outcome of the shuffle.  Entering one original twice refutes it.
C24_AnySelection ==
  LoadedForM =>
    \A typed \in PageLists :
      (/\ Len(typed) <= kb.cipherobj.nkeys
       /\ Len(Entered(typed)) >= enc.m
       /\ Originals(Entered(typed), enc.pw) = Len(Entered(typed))) =>
        DecryptsAlways(typed)

\* C24, amended: with the envelope built for the threshold M loaded, whenever
\* at least M passwords are entered and no password is entered more often
\* than it occurs among the normalized original passwords, kbp.decrypt
\* succeeds for every outcome of the shuffle: no alert, a download link, and
\* the plaintext that was encrypted.
C24_AnySelectionOfDistinct ==
  LoadedForM =>
    \A typed \in PageLists :
      (/\ Len(typed) <= kb.cipherobj.nkeys
       /\ Len(Entered(typed)) >= enc.m
       /\ \A i \in 1..Len(Entered(typed)) :
            Occurs(Entered(typed)[i], Entered(typed))
              <= Occurs(Entered(typed)[i], NormalizeAll(enc.pw))) =>
        DecryptsAlways(typed)

\* C24 witness: kbp.decrypt has just succeeded on a 2-of-3 envelope for which
\* all three original passwords can be entered, so that the shuffle chooses
\* among three selections
C24_Witness ==
  /\ LoadedForM /\ Len(enc.pw) = 3 /\ enc.m = 2
  /\ call.op = "kbp.decrypt" /\ call.ok /\ call.alerts = <<>>
  /\ kb.plaintext = enc.pt
  /\ \E typed \in PageLists :
       /\ Len(Entered(typed)) = 3
       /\ \A i \in 1..3 : Occurs(Entered(typed)[i], Entered(typed))
                            <= Occurs(Entered(typed)[i], NormalizeAll(enc.pw))
       /\ Cardinality(getMDecPass(Fields(typed, 3), 2)) = 3

\* C25 (keys are not kept across calls), as claimed: when encryptWithPasswords
\* or the last step of a decryption, decryptCiphertext, has completed, the
\* engine holds no master key and no derived keys, and a decryptCiphertext
\* called next has no master key to open the payload with.  The code never
\* clears _master and _keys, so it violates this.
C25_KeysNotKept ==
  (call.op \in {"encryptWithPasswords", "decryptCiphertext"} /\ ~call.threw) =>
    /\ IsNull(kb.master)
    /\ kb.keys = <<>>
    /\ decryptCiphertext(kb, sjcl).log.popen = 0

\* the payload of the envelope of k authenticates under the master key of k,
\* with the engine decryptCiphertext dispatches to
PayloadOpens(k, hasSjcl) ==
  IF UsesLegacy(k, hasSjcl)
  THEN ~decryptLegacy(k.cipherobj, k.master).threw
  ELSE ~decryptChaCha20Poly1305(k.master, k.cipherobj.ct, k.cipherobj.iv).threw

\* C26 (envelope corruption is a distinct failure): with a complete envelope
\* loaded, whenever decryptKeys recovers a master key under which the payload
\* does not authenticate, decryptCiphertext ends with an exception, where
\* decryptKeys reports wrong passcodes by returning false without one, and
\* leaves the plaintext as it was; kbp.decrypt then raises the error alert,
\* not the wrong-passcodes one, passes the exception on and makes no link,
\* while a kbp.decrypt that ends without an exception and without a master
\* key raises the wrong-passcodes alert.
C26_CorruptionDistinct ==
  (~IsNull(kb.cipherobj) /\ kb.cipherobj.hasKeys) =>
    /\ LET dk == decryptKeys(kb, sjcl)
           dc == decryptCiphertext(dk.kb, sjcl)
       IN /\ ~dk.threw
          /\ (dk.ret /\ ~PayloadOpens(dk.kb, sjcl)) =>
               dc.threw /\ dc.kb.plaintext = kb.plaintext
    /\ \A typed \in PageLists :
         Len(typed) <= kb.cipherobj.nkeys =>
           \A r \in kbpDecrypt(kb, sjcl, Fields(typed, kb.cipherobj.nkeys)) :
             /\ (r.ok /\ ~PayloadOpens(r.kb, sjcl)) =>
                  /\ r.threw /\ ~r.linked
                  /\ r.alerts # <<>> /\ r.alerts[Len(r.alerts)] = "error"
                  /\ \A i \in 1..Len(r.alerts) : r.alerts[i] # "wrong"
                  /\ r.kb.plaintext = kb.plaintext
             /\ (~r.ok /\ ~r.threw) =>
                  /\ ~r.linked
                  /\ r.alerts # <<>> /\ r.alerts[Len(r.alerts)] = "wrong"

\* C26 witness: kbp.decrypt has recovered the master key of an envelope whose
\* payload was altered, and ended with the error alert and an exception; the
\* plaintext in the engine is still the one that was encrypted
C26_Witness ==
  /\ call.op = "kbp.decrypt" /\ call.ok /\ call.threw
  /\ call.alerts = <<"error">>
  /\ Built /\ ~IsNull(kb.cipherobj) /\ kb.cipherobj.hasKeys
  /\ ~IsNull(kb.master) /\ ~PayloadOpens(kb, sjcl)
  /\ kb.plaintext = enc.pt

\* the raw words that are accepted and reduce to the residue r
Preimages(max, r) == {v \in 0..WordMax : v < maxValid(max) /\ v % max = r}

\* C27 (unbiased random integers): randomIntegers(max, count) with
\* 1 <= max < 2^w returns count values, each in 0..max-1 and each the
\* residue of a raw word below the threshold, so that no raw word at or
\* above the threshold is used; and among the raw words below the threshold
\* every residue 0..max-1 has the same number of preimages, at least one.
C27_RandomIntegers ==
  strOut.f = "randomIntegers" =>
    LET max == strOut.arg[1]
        count == strOut.arg[2]
    IN /\ Len(strOut.val) = count
       /\ \A i \in 1..Len(strOut.val) :
            /\ strOut.val[i] \in 0..(max - 1)
            /\ strOut.used[i] \in 0..WordMax
            /\ strOut.used[i] < maxValid(max)
            /\ strOut.val[i] = strOut.used[i] % max
       /\ \A r \in 0..(max - 1) :
            /\ Preimages(max, r) # {}
            /\ Cardinality(Preimages(max, r)) = Cardinality(Preimages(max, 0))

\* C27 witness: a call with max = 3, which does not divide the number of raw
\* words, has returned one value after it rejected the first raw word
C27_Witness ==
  /\ strOut.f = "randomIntegers"
  /\ strOut.arg = <<3, 1>>
  /\ Len(strIn[3]) = 2
  /\ strIn[3][1] >= maxValid(3)
  /\ strOut.used = <<strIn[3][2]>>

\* C28 (setCipherJSON is all-or-nothing): whatever state the engine is in,
\* when setCipherJSON ends in an exception (on a text that is no JSON, on an
\* envelope with a missing field, on a legacy file without the legacy
\* library) the engine's _salt, _nPasswords, _nToUnlock, _filename,
\* _filetype, pbkdf2_iterations and _cipherobj are what they were.
C28_AllOrNothing ==
  \A data \in Loadable \cup Malformed :
    LET r == setCipherJSON(kb, sjcl, data)
    IN r.threw =>
         /\ r.kb.salt = kb.salt
         /\ r.kb.nPasswords = kb.nPasswords
         /\ r.kb.nToUnlock = kb.nToUnlock
         /\ r.kb.filename = kb.filename
         /\ r.kb.filetype = kb.filetype
         /\ r.kb.iterations = kb.iterations
         /\ r.kb.cipherobj = kb.cipherobj

\* C28 witness: with the legacy library present and the envelope last
\* returned loaded, setCipherJSON has just ended in an exception, and the
\* envelope without its ct property is one of the texts that make it do so
C28_Witness ==
  /\ call.op = "setCipherJSON" /\ call.threw
  /\ sjcl /\ Built /\ HoldsOut
  /\ setCipherJSON(kb, sjcl, [out EXCEPT !.obj.ct = Null]).threw

\* getPlaintext
getPlaintext(k) == k.plaintext

\* C29 (a failed decryptKeys changes nothing): every decryptKeys that returns
\* false leaves the master key and the plaintext of the engine as they were
\* before the call, so that getPlaintext() returns afterwards what it
\* returned before.
C29_FailedDecryptKeysFrame ==
  [][(call'.op = "decryptKeys" /\ ~call'.threw /\ ~call'.ok) =>
       /\ kb'.master = kb.master
       /\ kb'.plaintext = kb.plaintext
       /\ getPlaintext(kb') = getPlaintext(kb)]_vars

\* C29 witness: decryptKeys has just returned false after it tried derived
\* keys on the wrapped keys of the envelope, in an engine that holds a master
\* key and a plaintext from earlier calls
C29_Witness ==
  /\ call.op = "decryptKeys" /\ ~call.threw /\ ~call.ok
  /\ ~IsNull(kb.cipherobj) /\ kb.cipherobj.hasKeys
  /\ Len(kb.keys) >= 1 /\ Len(kb.cipherobj.keys) >= 1
  /\ ~IsNull(kb.master) /\ ~IsNull(getPlaintext(kb))

\* how many different original passwords of pw are among the supplied ones
DistinctOriginals(S, pw) ==
  Cardinality({normalizeString(S[i]) : i \in 1..Len(S)}
                \cap {normalizeString(pw[j]) : j \in 1..Len(pw)})

\* C30 (the threshold counts distinct passwords), as claimed: with the
\* envelope loaded that was built for the threshold M from a list in which
\* two passwords are equal after normalization, supplied passwords among
\* which fewer than M different original passwords occur never make
\* decryptKeys return true, whether handed to makeKeyCombinations directly
\* or typed into the fields of kbp.decrypt.  The code violates it.
C30_DistinctThreshold ==
  (/\ Built /\ HoldsOut
   /\ \E i, j \in 1..Len(enc.pw) :
        i # j /\ normalizeString(enc.pw[i]) = normalizeString(enc.pw[j])) =>
    \A S \in TryLists :
      DistinctOriginals(S, enc.pw) < enc.m =>
        /\ ~Attempt(kb, sjcl, S, enc.m).gotKey
        /\ Len(S) <= kb.cipherobj.nkeys =>
             \A r \in kbpDecrypt(kb, sjcl, Fields(S, kb.cipherobj.nkeys)) : ~r.ok
====
